---- MODULE Spec2Model ----
(***************************************************************************)
(* A model of the snow-family consensus simulator:                         *)
(*   - the Snowball and Claro solvers (consensus/snowball, consensus/claro) *)
(*   - the simulation nodes, the shared network state, the four runners,   *)
(*     the network modifiers and the wards (simulations/snow-family).      *)
(*                                                                         *)
(* Opinion<Tx>, Vote<Tx> and Option<Vote<Tx>> carry the unit payload NoTx, *)
(* so they are modelled by their tags: "None", "Yes", "No".  A Decision is *)
(* a record [decided, opinion].  f32 quantities are modelled as exact      *)
(* rationals <<numerator, denominator>>; a zero denominator stands for the *)
(* NaN/inf results of a division by zero, for which every comparison is    *)
(* false.                                                                  *)
(***************************************************************************)
EXTENDS Integers, Sequences, FiniteSets, TLC

VARIABLES
    settings,       \* SimulationSettings (immutable after construction)
    nodes,          \* SimulationRunner.nodes: Vec<Node>
    network_state,  \* NetworkState: Vec<Option<Vote>>
    master,         \* SimulationRunner.master_omniscient
    sim,            \* SimulationState {iteration, round} of the running simulate()
    pc,             \* position of simulate() in its loop
    sched,          \* runner-local scheduling data (chunks, nodes_remaining, deque)
    wards,          \* mutable state of settings.wards
    votes,          \* the slice passed to the last solver step
    fed             \* what the driving loop has fed the solver so far

vars == <<settings, nodes, network_state, master, sim, pc, sched, wards, votes, fed>>

-----------------------------------------------------------------------------
(* Bounds of the exploration *)

\* longest vote slice a solver harness passes to step
MaxVotes == 3
\* most steps a solver harness takes
MaxSteps == 3

-----------------------------------------------------------------------------
(* Rationals standing for f32 values *)

RECURSIVE GCD(_, _)
GCD(a, b) == IF b = 0 THEN a ELSE GCD(b, a % b)

Abs(x) == IF x < 0 THEN -x ELSE x

Norm(r) ==
    IF r[2] = 0 THEN r
    ELSE LET g == GCD(Abs(r[1]), r[2]) IN <<r[1] \div g, r[2] \div g>>

RatAdd(a, b) == Norm(<<a[1] * b[2] + b[1] * a[2], a[2] * b[2]>>)
RatSub(a, b) == Norm(<<a[1] * b[2] - b[1] * a[2], a[2] * b[2]>>)
RatMul(a, b) == Norm(<<a[1] * b[1], a[2] * b[2]>>)
\* usize as f32 / usize as f32
RatDiv(n, d) == Norm(<<n, d>>)
RatOne == <<1, 1>>
RatGT(a, b) == a[2] # 0 /\ b[2] # 0 /\ a[1] * b[2] > b[1] * a[2]
RatLT(a, b) == a[2] # 0 /\ b[2] # 0 /\ a[1] * b[2] < b[1] * a[2]
RatGE(a, b) == a[2] # 0 /\ b[2] # 0 /\ a[1] * b[2] >= b[1] * a[2]

Min(a, b) == IF a <= b THEN a ELSE b

-----------------------------------------------------------------------------
(* claro.rs: Opinion, Vote, Decision *)

Opinions == {"None", "Yes", "No"}
VoteTags == {"Yes", "No"}

flip(opinion) ==
    CASE opinion = "Yes" -> "No"
      [] opinion = "No" -> "Yes"
      [] OTHER -> opinion

\* From<Opinion<Tx>> for Option<Vote<Tx>>
OpinionToVote(opinion) ==
    CASE opinion = "Yes" -> "Yes"
      [] opinion = "No" -> "No"
      [] OTHER -> "None"

\* From<Vote<Tx>> for Opinion<Tx>
VoteToOpinion(vote) == IF vote = "Yes" THEN "Yes" ELSE "No"

Undecided(opinion) == [decided |-> FALSE, opinion |-> opinion]
Decided(opinion) == [decided |-> TRUE, opinion |-> opinion]

\* From<Decision<Tx>> for Option<Vote<Tx>>
DecisionToVote(decision) == OpinionToVote(decision.opinion)

CountTag(vs, tag) == Cardinality({i \in 1..Len(vs) : vs[i] = tag})

-----------------------------------------------------------------------------
(* snowball.rs: SnowballSolver *)

\* A node of the simulation with its solver; the fields a kind does not have
\* stay 0.  node_query_size is NodeQuery.node_size (InfantileNode.query_size).
NewNode(id, kind, opinion, query, node_query_size) ==
    [id |-> id,
     kind |-> kind,
     decision |-> Undecided(opinion),
     consecutive_success |-> 0,
     evidence |-> 0,
     evidence_accumulated |-> 0,
     confidence |-> 0,
     query |-> query,
     node_query_size |-> node_query_size]

NoQuery ==
    [query_size |-> 0, initial_query_size |-> 0, query_multiplier |-> 0, max_multiplier |-> 0]

count_opinion_votes(s, vs) ==
    LET own == DecisionToVote(s.decision) IN
    Cardinality({i \in 1..Len(vs) :
        \/ vs[i] = "Yes" /\ own = "Yes"
        \/ vs[i] = "No" /\ own = "No"})

SnowballCountedFlipZero(cfg, s, vs) ==
    LET preference_count == count_opinion_votes(s, vs)
        not_preference_count == Len(vs) - preference_count
    IN  IF preference_count >= cfg.quorum_size
        THEN [s EXCEPT !.consecutive_success = @ + 1]
        ELSE IF not_preference_count >= cfg.quorum_size
        THEN [s EXCEPT !.decision = Undecided(flip(s.decision.opinion)),
                       !.consecutive_success = 0]
        ELSE [s EXCEPT !.consecutive_success = 0]

SnowballCountedNoReset(cfg, s, vs) ==
    LET preference_count == count_opinion_votes(s, vs)
        not_preference_count == Len(vs) - preference_count
    IN  IF preference_count >= cfg.quorum_size
        THEN [s EXCEPT !.consecutive_success = @ + 1]
        ELSE IF not_preference_count >= cfg.quorum_size
        THEN [s EXCEPT !.decision = Undecided(flip(s.decision.opinion)),
                       !.consecutive_success = 1]
        ELSE s

\* a step that looks at the other side's quorum first
SnowballCountedFlipFirst(cfg, s, vs) ==
    LET preference_count == count_opinion_votes(s, vs)
        not_preference_count == Len(vs) - preference_count
    IN  IF not_preference_count >= cfg.quorum_size
        THEN [s EXCEPT !.decision = Undecided(flip(s.decision.opinion)),
                       !.consecutive_success = 1]
        ELSE IF preference_count >= cfg.quorum_size
        THEN [s EXCEPT !.consecutive_success = @ + 1]
        ELSE [s EXCEPT !.consecutive_success = 0]

SnowballCounted(cfg, s, vs) ==
    LET preference_count == count_opinion_votes(s, vs)
        not_preference_count == Len(vs) - preference_count
    IN  IF preference_count >= cfg.quorum_size
        THEN [s EXCEPT !.consecutive_success = @ + 1]
        ELSE IF not_preference_count >= cfg.quorum_size
        THEN [s EXCEPT !.decision = Undecided(flip(s.decision.opinion)),
                       !.consecutive_success = 1]
        ELSE [s EXCEPT !.consecutive_success = 0]

SnowballDecideLate(cfg, s) ==
    IF s.consecutive_success > cfg.decision_threshold + 1
    THEN [s EXCEPT !.decision = Decided(s.decision.opinion)]
    ELSE s

SnowballDecide(cfg, s) ==
    IF s.consecutive_success > cfg.decision_threshold
    THEN [s EXCEPT !.decision = Decided(s.decision.opinion)]
    ELSE s

\* SnowballSolver::step, called on an Undecided solver
SnowballStep(cfg, s, vs) == SnowballDecide(cfg, SnowballCounted(cfg, s, vs))

-----------------------------------------------------------------------------
(* claro.rs: ClaroState, QueryConfiguration, ClaroSolver *)

update_confidence_per_round(s, vs) == [s EXCEPT !.confidence = @ + 1]

update_confidence(s, vs) == [s EXCEPT !.confidence = @ + Len(vs)]

\* an update that accumulates the positive votes only
update_evidence_positive(s, vs) ==
    [s EXCEPT !.evidence = @ + CountTag(vs, "Yes"),
              !.evidence_accumulated = @ + CountTag(vs, "Yes")]

update_evidence(s, vs) ==
    [s EXCEPT !.evidence = @ + CountTag(vs, "Yes"),
              !.evidence_accumulated = @ + Len(vs)]

grow_unbounded(q) ==
    [q EXCEPT !.query_size = q.query_size * q.query_multiplier]

grow(q) ==
    [q EXCEPT !.query_size =
        Min(q.query_size * q.query_multiplier, q.initial_query_size * q.max_multiplier)]

round_state_no_history(cfg, s, vs) ==
    LET total_votes == Len(vs)
        yes_votes == CountTag(vs, "Yes")
        confidence == RatDiv(s.confidence, s.confidence + cfg.look_ahead)
        e1 == RatDiv(yes_votes, total_votes)
        e2 == RatDiv(s.evidence, s.evidence_accumulated)
        e == RatMul(e1, RatSub(RatOne, confidence))
        alpha == RatAdd(RatMul(cfg.evidence_alpha, RatSub(RatOne, confidence)),
                        RatMul(cfg.evidence_alpha_2, confidence))
    IN  [confidence |-> confidence, e1 |-> e1, e2 |-> e2, e |-> e, alpha |-> alpha]

round_state(cfg, s, vs) ==
    LET total_votes == Len(vs)
        yes_votes == CountTag(vs, "Yes")
        confidence == RatDiv(s.confidence, s.confidence + cfg.look_ahead)
        e1 == RatDiv(yes_votes, total_votes)
        e2 == RatDiv(s.evidence, s.evidence_accumulated)
        e == RatAdd(RatMul(e1, RatSub(RatOne, confidence)), RatMul(e2, confidence))
        alpha == RatAdd(RatMul(cfg.evidence_alpha, RatSub(RatOne, confidence)),
                        RatMul(cfg.evidence_alpha_2, confidence))
    IN  [confidence |-> confidence, e1 |-> e1, e2 |-> e2, e |-> e, alpha |-> alpha]

\* lines 242-246: an Undecided(None) solver adopts the first vote
ClaroAdopt(s, vs) ==
    IF s.decision = Undecided("None") /\ vs # <<>>
    THEN [s EXCEPT !.decision = Undecided(VoteToOpinion(vs[1]))]
    ELSE s

\* a round that grows the query whatever the evidence says
ClaroRoundGrowing(cfg, s, vs) ==
    LET u == update_confidence(update_evidence(s, vs), vs)
        r == round_state(cfg, u, vs)
        g == [u EXCEPT !.query = grow(u.query)]
        o == IF RatGT(r.e, r.alpha)
             THEN [g EXCEPT !.decision = Undecided("Yes")]
             ELSE IF RatLT(r.e, RatSub(RatOne, r.alpha))
             THEN [g EXCEPT !.decision = Undecided("No")]
             ELSE g
    IN  IF RatGT(r.confidence, cfg.confidence_beta)
        THEN [o EXCEPT !.decision = Decided(o.decision.opinion)]
        ELSE o

\* a round that decides on a Yes only
ClaroRoundDecidingYes(cfg, s, vs) ==
    LET u == update_confidence(update_evidence(s, vs), vs)
        r == round_state(cfg, u, vs)
        o == IF RatGT(r.e, r.alpha)
             THEN [u EXCEPT !.decision = Undecided("Yes")]
             ELSE IF RatLT(r.e, RatSub(RatOne, r.alpha))
             THEN [u EXCEPT !.decision = Undecided("No")]
             ELSE [u EXCEPT !.query = grow(u.query)]
    IN  IF RatGT(r.confidence, cfg.confidence_beta) /\ o.decision.opinion = "Yes"
        THEN [o EXCEPT !.decision = Decided(o.decision.opinion)]
        ELSE o

\* lines 249-268: the round on a non-empty slice
ClaroRound(cfg, s, vs) ==
    LET u == update_confidence(update_evidence(s, vs), vs)
        r == round_state(cfg, u, vs)
        o == IF RatGT(r.e, r.alpha)
             THEN [u EXCEPT !.decision = Undecided("Yes")]
             ELSE IF RatLT(r.e, RatSub(RatOne, r.alpha))
             THEN [u EXCEPT !.decision = Undecided("No")]
             ELSE [u EXCEPT !.query = grow(u.query)]
    IN  IF RatGT(r.confidence, cfg.confidence_beta)
        THEN [o EXCEPT !.decision = Decided(o.decision.opinion)]
        ELSE o

ClaroStepUnguarded(cfg, s, vs) == ClaroRound(cfg, ClaroAdopt(s, vs), vs)

\* ClaroSolver::step, called on an Undecided solver
ClaroStep(cfg, s, vs) ==
    LET a == ClaroAdopt(s, vs) IN
    IF vs # <<>> THEN ClaroRound(cfg, a, vs) ELSE a

-----------------------------------------------------------------------------
(* Solver harnesses: a solver built as the unit tests build it and stepped  *)
(* on arbitrary vote slices, as in test_makes_decision and test_all_votes.  *)

RECURSIVE SeqsUpTo(_, _)
SeqsUpTo(S, n) ==
    IF n = 0 THEN {<<>>}
    ELSE LET shorter == SeqsUpTo(S, n - 1) IN
         shorter \cup {Append(q, x) : q \in {t \in shorter : Len(t) = n - 1}, x \in S}

VoteSlices == SeqsUpTo(VoteTags, MaxVotes)

SnowballConfigurations ==
    [kind : {"snow_ball"}, quorum_size : 0..2, sample_size : {MaxVotes},
     decision_threshold : 0..2]

\* which polarity alone reaches the quorum in a slice
Dominant(cfg, vs) ==
    LET y == CountTag(vs, "Yes")
        n == CountTag(vs, "No")
    IN  CASE y >= cfg.quorum_size /\ n < cfg.quorum_size -> "Yes"
          [] n >= cfg.quorum_size /\ y < cfg.quorum_size -> "No"
          [] OTHER -> "mixed"

\* start: the initial opinion; n: steps taken; dominant: the polarity every slice
\* so far gave the quorum to; before: the solver as it was before the last step
FedNothing(s) == [start |-> s.decision.opinion, n |-> 0, dominant |-> "none", before |-> s]

FedAfter(f, dom, s) ==
    [f EXCEPT !.n = @ + 1,
              !.dominant = IF f.n = 0 \/ f.dominant = dom THEN dom ELSE "mixed",
              !.before = s]

NoMaster ==
    [present |-> FALSE, honest_nodes_ids |-> <<>>, omniscient_nodes_ids |-> <<>>,
     decision |-> Undecided("None")]

\* pending: positions the parallel map has not stepped yet; chunks: the chunks
\* of the async round still to run; remaining: nodes_remaining of the Glauber
\* runner and next its loop index; deque: the layers of the layered runner;
\* stepped: the position node.step() was last called on (-1: none yet)
\* The record also keeps the history the properties speak of: steps, the
\* number of node.step() calls so far; visits, how often the parallel maps
\* of the current iteration or round stepped each position; mastered,
\* whether the master stepped in the current pass of the loop; unwarded,
\* the <<iteration, round>> counters under which nodes were stepped since
\* check_wards last ran; snapshot, the vector as the runner or the modifiers
\* last left it.
IdleSched ==
    [pending |-> {}, chunks |-> <<>>, remaining |-> {}, deque |-> <<>>, next |-> 0,
     stepped |-> -1, steps |-> 0, visits |-> <<>>, mastered |-> FALSE,
     unwarded |-> {}, snapshot |-> <<>>]

IdleRunner ==
    /\ network_state = <<>>
    /\ master = NoMaster
    /\ sim = [iteration |-> 0, round |-> 0]
    /\ pc = "harness"
    /\ sched = IdleSched
    /\ wards = <<>>

InitSnowball ==
    /\ settings \in [consensus_settings : SnowballConfigurations]
    /\ \E opinion \in Opinions :
        /\ nodes = <<NewNode(0, "snowball", opinion, NoQuery, 0)>>
        /\ fed = FedNothing(nodes[1])
    /\ votes = <<>>
    /\ IdleRunner

\* solver.step(&votes) of the Snowball tests
StepSnowball ==
    /\ pc = "harness"
    /\ nodes[1].kind = "snowball"
    /\ ~nodes[1].decision.decided
    /\ fed.n < MaxSteps
    /\ \E vs \in VoteSlices :
        /\ votes' = vs
        /\ nodes' = <<SnowballStep(settings.consensus_settings, nodes[1], vs)>>
        /\ fed' = FedAfter(fed, Dominant(settings.consensus_settings, vs), nodes[1])
    /\ UNCHANGED <<settings, network_state, master, sim, pc, sched, wards>>

SpecSnowball == InitSnowball /\ [][StepSnowball]_vars

\* the solver under test and its static configuration
Solver == nodes[1]
Cfg == settings.consensus_settings

\* C4: after every Snowball step, consecutive_success > decision_threshold
\* implies that the decision is Decided.
C4_StreakImpliesDecided ==
    (pc = "harness" /\ Solver.kind = "snowball" /\
     Solver.consecutive_success > Cfg.decision_threshold)
        => Solver.decision.decided

C4_Witness ==
    /\ pc = "harness" /\ Solver.kind = "snowball" /\ fed.n >= 2
    /\ Solver.consecutive_success > Cfg.decision_threshold
    /\ ~fed.before.decision.decided
    /\ Solver.decision.decided

\* C5: with quorum >= 1, starting Undecided(o), o in {Yes, No}, streak 0, and
\* fed only slices that give the quorum to one polarity p alone, the solver is
\* Undecided after each of the first threshold steps and is Decided(p) with
\* consecutive_success = threshold + 1 after step threshold + 1.
C5_DecidesAfterThresholdPlusOne ==
    (pc = "harness" /\ Solver.kind = "snowball" /\ Cfg.quorum_size >= 1 /\
     fed.start \in VoteTags /\ fed.dominant \in VoteTags)
        => /\ fed.n <= Cfg.decision_threshold + 1
           /\ fed.n <= Cfg.decision_threshold => ~Solver.decision.decided
           /\ fed.n = Cfg.decision_threshold + 1 =>
                /\ Solver.decision = Decided(fed.dominant)
                /\ Solver.consecutive_success = Cfg.decision_threshold + 1

C5_Witness ==
    /\ pc = "harness" /\ Solver.kind = "snowball" /\ Cfg.quorum_size = 2
    /\ Cfg.decision_threshold = 2
    /\ fed.start = "Yes" /\ fed.dominant = "No" /\ fed.n = 3
    /\ Solver.decision = Decided("No")
    /\ Solver.consecutive_success = 3

\* C6 as stated: a Snowball step on an empty slice changes neither
\* consecutive_success nor the decision.
C6_EmptyStepIsNoOp ==
    (pc = "harness" /\ Solver.kind = "snowball" /\ fed.n >= 1 /\ votes = <<>>)
        => /\ Solver.consecutive_success = fed.before.consecutive_success
           /\ Solver.decision = fed.before.decision

\* C6 amended: with quorum_size >= 1 a Snowball step on an empty slice leaves
\* the decision (opinion and finality flag) unchanged and sets
\* consecutive_success to 0.
C6_EmptyStepResetsStreak ==
    (pc = "harness" /\ Solver.kind = "snowball" /\ fed.n >= 1 /\ votes = <<>> /\
     Cfg.quorum_size >= 1)
        => /\ Solver.consecutive_success = 0
           /\ Solver.decision = fed.before.decision

C6_Witness ==
    /\ pc = "harness" /\ Solver.kind = "snowball" /\ fed.n >= 2 /\ votes = <<>>
    /\ Cfg.quorum_size >= 1
    /\ fed.before.consecutive_success > 0
    /\ Solver.consecutive_success = 0
    /\ Solver.decision = fed.before.decision

-----------------------------------------------------------------------------
(* Claro harness *)

\* QueryConfiguration::new
NewQueryConfiguration(query_size) ==
    [query_size |-> query_size, initial_query_size |-> query_size,
     query_multiplier |-> 2, max_multiplier |-> 4]

\* f32 settings values, as rationals
Alphas == {<<0, 1>>, <<1, 100>>, <<3, 4>>, <<1, 1>>}
Betas == {<<1, 100>>, <<1, 2>>}
LookAheads == {0, 1, 3}

\* the query settings a settings file can hold: any usize in each field
QueryConfigurations ==
    [query_size : 0..2, initial_query_size : 1..2, query_multiplier : 0..2,
     max_multiplier : 1..3]

\* every threshold setting with the query settings of QueryConfiguration::new,
\* and every query setting with thresholds that leave rounds inconclusive
ClaroConfigurations ==
    [kind : {"claro"}, evidence_alpha : Alphas, evidence_alpha_2 : Alphas,
     confidence_beta : Betas, look_ahead : LookAheads,
     query : {NewQueryConfiguration(1), NewQueryConfiguration(2)}]
    \cup
    [kind : {"claro"}, evidence_alpha : {<<3, 4>>}, evidence_alpha_2 : {<<3, 4>>, <<1, 1>>},
     confidence_beta : {<<1, 2>>}, look_ahead : {3}, query : QueryConfigurations]

InitClaro ==
    /\ settings \in [consensus_settings : ClaroConfigurations]
    /\ \E opinion \in Opinions :
        /\ nodes = <<NewNode(0, "claro", opinion, settings.consensus_settings.query,
                               settings.consensus_settings.query.query_size)>>
        /\ fed = FedNothing(nodes[1])
    /\ votes = <<>>
    /\ IdleRunner

\* solver.step(tx, &votes) of the Claro tests
StepClaro ==
    /\ pc = "harness"
    /\ nodes[1].kind = "claro"
    /\ ~nodes[1].decision.decided
    /\ fed.n < MaxSteps
    /\ \E vs \in VoteSlices :
        /\ votes' = vs
        /\ nodes' = <<ClaroStep(settings.consensus_settings, nodes[1], vs)>>
        /\ fed' = FedAfter(fed, "mixed", nodes[1])
    /\ UNCHANGED <<settings, network_state, master, sim, pc, sched, wards>>

SpecClaro == InitClaro /\ [][StepClaro]_vars

ClaroHarness == pc = "harness" /\ Solver.kind = "claro"

\* C7: a Claro step on an empty slice changes nothing: evidence,
\* evidence_accumulated, confidence, query_size and the decision stay as they were.
C7_ClaroEmptyStepIsNoOp ==
    (ClaroHarness /\ fed.n >= 1 /\ votes = <<>>)
        => /\ Solver.evidence = fed.before.evidence
           /\ Solver.evidence_accumulated = fed.before.evidence_accumulated
           /\ Solver.confidence = fed.before.confidence
           /\ Solver.query = fed.before.query
           /\ Solver.decision = fed.before.decision

C7_Witness ==
    /\ ClaroHarness /\ fed.n >= 2 /\ votes = <<>>
    /\ Solver.evidence > 0
    /\ Solver.query.query_size > Cfg.query.query_size
    /\ Solver = fed.before

\* C8: a Claro step on votes V adds the number of Yes votes of V to evidence and
\* |V| to evidence_accumulated and to confidence, so no counter ever decreases.
C8_CountersGrowByVotes ==
    (ClaroHarness /\ fed.n >= 1)
        => /\ Solver.evidence = fed.before.evidence + CountTag(votes, "Yes")
           /\ Solver.evidence_accumulated = fed.before.evidence_accumulated + Len(votes)
           /\ Solver.confidence = fed.before.confidence + Len(votes)
           /\ Solver.evidence >= fed.before.evidence
           /\ Solver.evidence_accumulated >= fed.before.evidence_accumulated
           /\ Solver.confidence >= fed.before.confidence

C8_Witness ==
    /\ ClaroHarness /\ fed.n >= 2
    /\ CountTag(votes, "Yes") >= 1 /\ CountTag(votes, "No") >= 1
    /\ fed.before.evidence >= 1
    /\ Solver.evidence > fed.before.evidence
    /\ Solver.confidence > Solver.evidence

QueryCeiling(q) == q.initial_query_size * q.max_multiplier

\* C9 as stated: for every query configuration, query_size never decreases and
\* never exceeds initial_query_size * max_multiplier.
C9_QuerySizeMonotoneBounded ==
    ClaroHarness
        => /\ Solver.query.query_size <= QueryCeiling(Solver.query)
           /\ fed.n >= 1 => Solver.query.query_size >= fed.before.query.query_size

\* C9 amended: for every query configuration with query_multiplier >= 1 and
\* query_size <= initial_query_size * max_multiplier (and products within usize),
\* query_size never decreases and never exceeds initial_query_size * max_multiplier.
C9_QuerySizeMonotoneBoundedWhenValid ==
    (ClaroHarness /\ Cfg.query.query_multiplier >= 1 /\
     Cfg.query.query_size <= QueryCeiling(Cfg.query))
        => /\ Solver.query.query_size <= QueryCeiling(Solver.query)
           /\ fed.n >= 1 => Solver.query.query_size >= fed.before.query.query_size

C9_Witness ==
    /\ ClaroHarness /\ fed.n >= 1
    /\ Cfg.query.query_multiplier >= 1
    /\ Cfg.query.query_size <= QueryCeiling(Cfg.query)
    /\ Cfg.query.query_size * Cfg.query.query_multiplier > QueryCeiling(Cfg.query)
    /\ fed.before.query.query_size < QueryCeiling(Cfg.query)
    /\ Solver.query.query_size = QueryCeiling(Cfg.query)

AllVotes(vs, p) == \A i \in 1..Len(vs) : vs[i] = p

\* C10: a Claro solver with zero counters and opinion Yes, with
\* 0 <= alpha, alpha_2 < 1 and n / (n + look_ahead) > beta, that takes one step
\* on n >= 1 votes all of polarity p is Decided(p) and publishes vote p.
C10_UnanimousStepDecides ==
    \A p \in VoteTags :
        (ClaroHarness /\ fed.n = 1 /\ fed.start = "Yes"
         /\ Len(votes) >= 1 /\ AllVotes(votes, p)
         /\ RatGE(Cfg.evidence_alpha, <<0, 1>>) /\ RatLT(Cfg.evidence_alpha, RatOne)
         /\ RatGE(Cfg.evidence_alpha_2, <<0, 1>>) /\ RatLT(Cfg.evidence_alpha_2, RatOne)
         /\ RatGT(RatDiv(Len(votes), Len(votes) + Cfg.look_ahead), Cfg.confidence_beta))
            => /\ Solver.decision = Decided(p)
               /\ DecisionToVote(Solver.decision) = p

C10_Witness ==
    /\ ClaroHarness /\ fed.n = 1 /\ fed.start = "Yes"
    /\ Len(votes) = 2 /\ AllVotes(votes, "No")
    /\ Cfg.evidence_alpha = <<3, 4>> /\ Cfg.evidence_alpha_2 = <<1, 100>>
    /\ Cfg.look_ahead = 1 /\ Cfg.confidence_beta = <<1, 2>>
    /\ Solver.decision = Decided("No")

-----------------------------------------------------------------------------
(* The simulation: settings.rs, runner/mod.rs, node/*.rs                     *)
(* Vec indices and node ids are 0-based as in the source; position i of a   *)
(* Vec is element i + 1 of the sequence that models it.                     *)

\* largest byzantine_settings.total_size explored
MaxNodes == 3
\* the runners are followed while the iteration counter is below MaxIter
MaxIter == 2

At(vec, i) == vec[i + 1]
InRange(vec, i) == i >= 0 /\ i < Len(vec)

\* f32::round of the non-negative n / d: half away from zero
Round(n, d) == (2 * n + d) \div (2 * d)

\* Vec::shuffle: every ordering of the sequence
Shuffles(s) ==
    LET n == Len(s) IN
    {[i \in 1..n |-> s[f[i]]] :
        f \in {g \in [1..n -> 1..n] : \A i, j \in 1..n : g[i] = g[j] => i = j}}

Repeat(x, n) == [i \in 1..n |-> x]
Take(s, n) == SubSeq(s, 1, Min(n, Len(s)))
Drop(s, n) == SubSeq(s, Min(n, Len(s)) + 1, Len(s))
Range(s) == {s[i] : i \in 1..Len(s)}

RECURSIVE SortByKey(_)
\* sort_unstable_by_key(|node| node.id()) of records with distinct ids
SortByKey(S) ==
    IF S = {} THEN <<>>
    ELSE LET m == CHOOSE x \in S : \A y \in S : x.id <= y.id
         IN  <<m>> \o SortByKey(S \ {m})

\* ConsensusSettings::query_size
ConsensusQuerySize(consensus) ==
    IF consensus.kind = "snow_ball" THEN consensus.sample_size
    ELSE consensus.query.query_size

\* the shares of ByzantineDistribution, in eighths: honest, infantile, random,
\* omniscient; each sums to 8 as check_distribution demands
ByzantineDistributions ==
    {<<8, 0, 0, 0>>, <<4, 4, 0, 0>>, <<4, 0, 4, 0>>, <<4, 0, 0, 4>>, <<5, 1, 1, 1>>}

\* the weights of InitialDistribution, in halves: yes, no, none
InitialDistributions == {<<2, 0, 0>>, <<1, 1, 0>>}

\* lines 89-91: the per-type sizes
TypeSizes(total_size, shares) == [k \in 1..4 |-> Round(total_size * shares[k], 8)]

\* lines 95-107: the honest opinions before the shuffle
VotesDistribution(honest_size, distribution) ==
    LET size(w) == (honest_size * w) \div 2
    IN  Take(Repeat("None", size(distribution[3])) \o Repeat("Yes", size(distribution[1]))
             \o Repeat("No", size(distribution[2])) \o Repeat("None", honest_size),
             honest_size)

\* build_honest_nodes
HonestNode(consensus, total_size, id, opinion) ==
    IF consensus.kind = "snow_ball"
    THEN NewNode(id, "snowball", opinion, NoQuery, total_size)
    ELSE NewNode(id, "claro", opinion, consensus.query, total_size)

\* MasterOmniscientNode::new
NewMaster(honest_nodes_ids, omniscient_nodes_ids) ==
    [present |-> TRUE, honest_nodes_ids |-> honest_nodes_ids,
     omniscient_nodes_ids |-> omniscient_nodes_ids, decision |-> Undecided("None")]

\* ComputeNode::decision; a puppet reads the decision it shares with the master
NodeDecision(n, m) == IF n.kind = "omniscient" THEN m.decision ELSE n.decision
\* ComputeNode::vote
NodeVote(n, m) == OpinionToVote(NodeDecision(n, m).opinion)

\* network_state_from_nodes
network_state_from_nodes(ns, m) == [i \in 1..Len(ns) |-> NodeVote(ns[i], m)]

\* nodes_from_initial_settings, for one outcome of the two shuffles
Population(st, node_ids, votes_distribution) ==
    LET total_size == st.byzantine_settings.total_size
        sizes == TypeSizes(total_size, st.byzantine_settings.distribution)
        honest_ids == Take(node_ids, sizes[1])
        after_honest == Drop(node_ids, sizes[1])
        infantile_ids == Take(after_honest, sizes[2])
        after_infantile == Drop(after_honest, sizes[2])
        random_ids == Take(after_infantile, sizes[3])
        after_random == Drop(after_infantile, sizes[3])
        omniscient_ids == IF sizes[4] > 0 THEN Take(after_random, sizes[4]) ELSE <<>>
        honest == {HonestNode(st.consensus_settings, total_size, honest_ids[i], votes_distribution[i]) :
                      i \in 1..Len(honest_ids)}
        infantile == {NewNode(id, "infantile", "None", NoQuery, ConsensusQuerySize(st.consensus_settings)) :
                      id \in Range(infantile_ids)}
        random == {NewNode(id, "random", "None", NoQuery, 0) : id \in Range(random_ids)}
        puppets == {NewNode(id, "omniscient", "None", NoQuery, 0) : id \in Range(omniscient_ids)}
    IN  [nodes |-> SortByKey(honest \cup puppets \cup infantile \cup random),
         master |-> IF sizes[4] > 0 THEN NewMaster(honest_ids, omniscient_ids) ELSE NoMaster]

-----------------------------------------------------------------------------
(* node/mod.rs, node/*.rs: the node behaviours *)

RECURSIVE Reservoirs(_, _, _)
\* IteratorRandom::choose_multiple: the first amount items fill the reservoir in
\* order; each later item replaces a random slot or is dropped
Reservoirs(items, amount, k) ==
    IF k <= amount THEN {Take(items, amount)}
    ELSE LET earlier == Reservoirs(items, amount, k - 1) IN
         earlier \cup {[r EXCEPT ![slot] = items[k]] : r \in earlier, slot \in 1..amount}

choose_multiple(items, amount) ==
    IF amount = 0 THEN {<<>>} ELSE Reservoirs(items, amount, Len(items))

RECURSIVE FilterVotes(_, _)
\* filter_map(|(id, vote)| if id != node_id { *vote } else { None })
FilterVotes(entries, node_id) ==
    IF entries = <<>> THEN <<>>
    ELSE LET e == Head(entries)
             rest == FilterVotes(Tail(entries), node_id)
         IN  IF e[1] # node_id /\ e[2] # "None" THEN <<e[2]>> \o rest ELSE rest

\* query_network_state: the vote slices a call can return
\* a query that lets the entry of the caller through
query_network_state_with_self(ns, query_size, node_id) ==
    LET enumerated == [i \in 1..Len(ns) |-> <<i - 1, ns[i]>>]
    IN  {Take(FilterVotes(chosen, 0 - 1), query_size) :
            chosen \in choose_multiple(enumerated, query_size + 1)}

query_network_state(ns, query_size, node_id) ==
    LET enumerated == [i \in 1..Len(ns) |-> <<i - 1, ns[i]>>]
    IN  {Take(FilterVotes(chosen, node_id), query_size) :
            chosen \in choose_multiple(enumerated, query_size + 1)}

HonestStepAlways(consensus, n, vs) ==
    IF n.kind = "snowball"
    THEN SnowballStep(consensus, n, vs)
    ELSE ClaroStep(consensus, n, vs)

\* the node a failed assert!(matches!(self.decision, Decision::Undecided(_)))
\* leaves behind: the panic ends the run
AssertFailed(n) == [n EXCEPT !.kind = "aborted"]

\* SnowballSolver::step / ClaroSolver::step as the node calls it: the
\* assertion, then the step
SolverStep(consensus, n, vs) ==
    IF n.decision.decided THEN AssertFailed(n)
    ELSE IF n.kind = "snowball" THEN SnowballStep(consensus, n, vs)
    ELSE ClaroStep(consensus, n, vs)

\* a node that hands the votes to its solver whatever the solver's decision
HonestStepUnguarded(consensus, n, vs) == SolverStep(consensus, n, vs)

\* SnowballNode::step / ClaroNode::step on the queried votes
HonestStep(consensus, n, vs) ==
    IF ~n.decision.decided THEN SolverStep(consensus, n, vs) ELSE n

\* where the runner is after node.step() returned or panicked
\* a loop body that perturbs the vector right after the step
after_step_perturbing(stepped, position) ==
    IF stepped.kind = "aborted" THEN "panic"
    ELSE IF position = "wards" THEN "modifiers" ELSE position

after_step(stepped, position) == IF stepped.kind = "aborted" THEN "panic" ELSE position

\* a majority that a tie already makes
flip_majority_on_ties(vs) ==
    IF CountTag(vs, "Yes") >= Len(vs) \div 2 THEN "No" ELSE "Yes"

\* InfantileNode::flip_majority
flip_majority(vs) ==
    IF CountTag(vs, "Yes") > Len(vs) \div 2 THEN "No" ELSE "Yes"

\* ComputeNode::step of the node kinds of Vec<Node>: the nodes it can become
NodeSteps(consensus, ns, n) ==
    CASE n.kind \in {"snowball", "claro"} ->
            {HonestStep(consensus, n, vs) :
                vs \in query_network_state(ns, n.node_query_size, n.id)}
      [] n.kind = "infantile" ->
            {[n EXCEPT !.decision = Undecided(flip_majority(vs))] :
                vs \in query_network_state(ns, n.node_query_size, n.id)}
      [] n.kind = "random" ->
            {[n EXCEPT !.decision = Undecided(o)] : o \in VoteTags}
      [] OTHER -> {n}

\* MasterOmniscientNode::analyze_and_write_votes panics on an honest id that
\* is not an index of the vector
MasterPanics(m, ns) == \E k \in 1..Len(m.honest_nodes_ids) : ~InRange(ns, m.honest_nodes_ids[k])

MasterVote(m, ns) ==
    LET honest_votes == [k \in 1..Len(m.honest_nodes_ids) |-> At(ns, m.honest_nodes_ids[k])]
        yes_votes == CountTag(honest_votes, "Yes")
        no_votes == CountTag(honest_votes, "No")
    IN  IF yes_votes > no_votes THEN "No" ELSE "Yes"

\* MasterOmniscientNode::step: the master and the vector after it
MasterDecide(m, ns) == [m EXCEPT !.decision = Undecided(VoteToOpinion(MasterVote(m, ns)))]

MasterWrite(m, ns) ==
    [i \in 1..Len(ns) |->
        IF i - 1 \in Range(m.omniscient_nodes_ids) THEN MasterVote(m, ns) ELSE ns[i]]

\* a write of the vote into every entry of the vector
update_single_network_state_vote_everywhere(ns, id, vote) == [i \in 1..Len(ns) |-> vote]

\* update_single_network_state_vote with the write left out
update_single_network_state_vote_skipped(ns, id, vote) == ns

\* update_single_network_state_vote
update_single_network_state_vote(ns, id, vote) == [ns EXCEPT ![id + 1] = vote]

\* MasterOmniscientNode::step where the runner holds a master: whether it
\* panicked, and the master and the vector after it
master_step(m, ns) ==
    IF ~m.present THEN [panicked |-> FALSE, master |-> m, network_state |-> ns]
    ELSE IF MasterPanics(m, ns) THEN [panicked |-> TRUE, master |-> m, network_state |-> ns]
    ELSE [panicked |-> FALSE, master |-> MasterDecide(m, ns), network_state |-> MasterWrite(m, ns)]

-----------------------------------------------------------------------------
(* network_behaviour/drop.rs, warding/*.rs *)

\* f32::clamp(0, 1) of a rate with a positive denominator
Clamp01(r) == IF r[1] < 0 THEN <<0, 1>> ELSE IF r[1] > r[2] THEN <<1, 1>> ELSE r

\* a modifier that truncates the amount where the code rounds it
RandomDropTruncated(ns, drop_rate) ==
    LET rate == Clamp01(drop_rate)
        amount == (rate[1] * Len(ns)) \div rate[2]
        indices == [i \in 1..Len(ns) |-> i - 1]
    IN  {[i \in 1..Len(ns) |-> IF i - 1 \in Range(chosen) THEN "None" ELSE ns[i]] :
            chosen \in choose_multiple(indices, amount)}

\* RandomDrop::modify_network_state: the vectors it can leave
RandomDrop(ns, drop_rate) ==
    LET rate == Clamp01(drop_rate)
        amount == Round(rate[1] * Len(ns), rate[2])
        indices == [i \in 1..Len(ns) |-> i - 1]
    IN  {[i \in 1..Len(ns) |-> IF i - 1 \in Range(chosen) THEN "None" ELSE ns[i]] :
            chosen \in choose_multiple(indices, amount)}

RECURSIVE run_network_behaviour_modifiers(_, _)
\* the vectors the modifiers, run in order, can leave
run_network_behaviour_modifiers(ns, modifiers) ==
    IF modifiers = <<>> THEN {ns}
    ELSE UNION {run_network_behaviour_modifiers(dropped, Tail(modifiers)) :
                    dropped \in RandomDrop(ns, Head(modifiers).drop_rate)}

\* the mutable part of a ward: StabilisedWard.buffer and Rounds.last_round
NewWardState == [buffer |-> <<>>, last_round |-> 0]

\* a push that a full deque rejects, keeping its front
push_back_rejected(deque, capacity, x) ==
    IF Len(deque) >= capacity THEN deque ELSE Append(deque, x)

\* FixedSliceDeque::push_back: a full deque drops its front
push_back(deque, capacity, x) ==
    IF Len(deque) >= capacity THEN Append(Tail(deque), x) ELSE Append(deque, x)

\* StabilisedWard::count_state
count_state(ns) == <<CountTag(ns, "Yes"), CountTag(ns, "No")>>

\* ConvergedWard::converged
converged(ratio, len, decisions) ==
    LET total_decided == Cardinality({i \in 1..Len(decisions) : decisions[i].decided})
    IN  RatGE(RatDiv(total_decided, len), ratio)

\* a gate that lets every call sample
should_check_always(check, ws, st) == TRUE

\* StabilisedCheck::should_check
should_check(check, ws, st) ==
    IF check.type = "iterations" THEN st.iteration % check.chunk = 0
    ELSE ws.last_round < st.round

\* a ward that fires as soon as the round reaches the threshold
time_to_finality_reached(ttf_threshold, st) == st.round >= ttf_threshold

\* TimeToFinalityWard::analyze
time_to_finality(ttf_threshold, st) == st.round > ttf_threshold

\* SimulationWard::analyze of one ward on the state st = [nodes, master,
\* network_state, iteration, round]: its verdict and the ward after it
analyze(w, ws, st) ==
    CASE w.kind = "time_to_finality" ->
            [fired |-> time_to_finality(w.ttf_threshold, st), state |-> ws]
      [] w.kind = "converged" ->
            [fired |-> converged(w.ratio, Len(st.nodes),
                                 [i \in 1..Len(st.nodes) |-> NodeDecision(st.nodes[i], st.master)]),
             state |-> ws]
      [] OTHER ->
            LET checked == IF w.check.type = "rounds"
                           THEN [ws EXCEPT !.last_round = st.round] ELSE ws
                buffer == push_back(ws.buffer, w.buffer, count_state(st.network_state))
            IN  IF ~should_check(w.check, ws, st) THEN [fired |-> FALSE, state |-> checked]
                ELSE [fired |-> Len(buffer) >= w.buffer /\ Cardinality(Range(buffer)) = 1,
                      state |-> [checked EXCEPT !.buffer = buffer]]

-----------------------------------------------------------------------------
(* The settings explored, and SimulationRunner::new *)

SimSnowball ==
    [kind |-> "snow_ball", quorum_size |-> 1, sample_size |-> 2, decision_threshold |-> 0]

SimClaro ==
    [kind |-> "claro", evidence_alpha |-> <<3, 4>>, evidence_alpha_2 |-> <<3, 4>>,
     confidence_beta |-> <<1, 2>>, look_ahead |-> 1, query |-> NewQueryConfiguration(2)]

SimulationStyles ==
    {[kind |-> "sync"]}
    \cup [kind : {"async"}, chunks : {0, 1, 2}]
    \cup [kind : {"glauber"}, maximum_iterations : {MaxIter}, update_rate : {1}]
    \cup [kind : {"layered"}, rounds_gap : {1, 2}]

WardLists ==
    {<<>>,
     <<[kind |-> "time_to_finality", ttf_threshold |-> 1]>>,
     <<[kind |-> "converged", ratio |-> <<1, 2>>]>>,
     <<[kind |-> "stabilised", buffer |-> 2, check |-> [type |-> "rounds"]],
       [kind |-> "stabilised", buffer |-> 2, check |-> [type |-> "iterations", chunk |-> 1]]>>}

ModifierLists == {<<>>, <<[kind |-> "random_drop", drop_rate |-> <<1, 2>>]>>}

\* every population under the sync runner; every runner, ward list and
\* modifier list on the Snowball populations of three nodes with mixed
\* opinions; and every runner on the Claro populations of that kind
SimulationSettings ==
    [consensus_settings : {SimSnowball, SimClaro},
     distribution : InitialDistributions,
     byzantine_settings : [total_size : 1..MaxNodes, distribution : ByzantineDistributions],
     wards : {<<>>},
     network_modifiers : {<<>>},
     simulation_style : {[kind |-> "sync"]}]
    \cup
    [consensus_settings : {SimSnowball},
     distribution : {<<1, 1, 0>>},
     byzantine_settings : [total_size : {3}, distribution : ByzantineDistributions],
     wards : WardLists,
     network_modifiers : ModifierLists,
     simulation_style : SimulationStyles]
    \cup
    [consensus_settings : {SimClaro},
     distribution : {<<1, 1, 0>>},
     byzantine_settings : [total_size : {3}, distribution : ByzantineDistributions],
     wards : {<<>>},
     network_modifiers : {<<>>},
     simulation_style : SimulationStyles]

\* build_node_ids_deque
build_node_ids_deque(gap, ns) == <<{ns[i].id : i \in 1..Len(ns)}>> \o Repeat({}, gap)

NewSched(style, ns, m) ==
    [IdleSched EXCEPT
        !.remaining = IF style.kind = "glauber" THEN {i - 1 : i \in 1..Len(ns)} ELSE {},
        !.deque = IF style.kind = "layered" THEN build_node_ids_deque(style.rounds_gap, ns)
                  ELSE <<>>,
        !.visits = [i \in 1..Len(ns) |-> 0],
        !.snapshot = network_state_from_nodes(ns, m)]

\* the record a node that has not stepped leaves in fed.before
NoNode == NewNode(0, "none", "None", NoQuery, 0)

\* SimulationRunner::new and the first lines of simulate, for the settings of
\* a given set
InitWith(settings_explored) ==
    \E st \in settings_explored :
        LET total_size == st.byzantine_settings.total_size
            honest_size == TypeSizes(total_size, st.byzantine_settings.distribution)[1]
        IN  \E node_ids \in Shuffles([i \in 1..total_size |-> i - 1]),
               votes_distribution \in Shuffles(VotesDistribution(honest_size, st.distribution)) :
                LET built == Population(st, node_ids, votes_distribution) IN
                /\ settings = st
                /\ nodes = built.nodes
                /\ master = built.master
                /\ network_state = network_state_from_nodes(built.nodes, built.master)
                /\ sim = [iteration |-> 0, round |-> 0]
                /\ pc = "loop"
                /\ sched = NewSched(st.simulation_style, built.nodes, built.master)
                /\ wards = [k \in 1..Len(st.wards) |-> NewWardState]
                /\ votes = <<>>
                /\ fed = FedNothing(NoNode)

Init == InitWith(SimulationSettings)

Style == settings.simulation_style

-----------------------------------------------------------------------------
(* runner/sync_runner.rs, async_runner.rs, glauber_runner.rs,               *)
(* layered_runner.rs: one action per stage of a loop iteration.  pc is the  *)
(* stage the runner is at: "loop" (top of the loop), "chunk" (top of the    *)
(* async chunk loop), "steps" (inside the parallel map over the nodes),     *)
(* "wards", "modifiers", "advance" (the end of a layered iteration), "done" *)
(* (simulate returned) and "panic".                                         *)

\* the whole permutation taken as one chunk
ChunksWhole(ids, chunk_size) == <<Range(ids)>>

\* node_ids.chunks(chunk_size), each chunk as the HashSet the map looks it up in
RECURSIVE Chunks(_, _)
Chunks(ids, chunk_size) ==
    IF ids = <<>> THEN <<>>
    ELSE <<Range(Take(ids, chunk_size))>> \o Chunks(Drop(ids, chunk_size), chunk_size)

Positions == {i - 1 : i \in 1..Len(nodes)}

\* the scheduling record once node.step() was called on a position while the
\* counters of the simulation state were st
Stepped(s, position, st) ==
    [s EXCEPT !.stepped = position,
              !.steps = @ + 1,
              !.unwarded = @ \cup {<<st.iteration, st.round>>}]

\* the scheduling record once the master stepped, or panicked in its step
Mastered(s, m) == [s EXCEPT !.mastered = master.present /\ ~m.panicked]

\* node.step() turned the node at a position of the nodes vector into stepped
StepNodeAt(position, stepped) ==
    /\ nodes' = [nodes EXCEPT ![position + 1] = stepped]
    /\ fed' = FedNothing(At(nodes, position))

\* sync_runner lines 17-20 and run_step lines 341-343: the iteration starts
\* and the master steps
SyncIteration ==
    /\ pc = "loop"
    /\ Style.kind = "sync"
    /\ sim.iteration < MaxIter
    /\ LET m == master_step(master, network_state) IN
        /\ sim' = [iteration |-> sim.iteration + 1, round |-> sim.iteration + 1]
        /\ master' = m.master
        /\ network_state' = m.network_state
        /\ pc' = IF m.panicked THEN "panic" ELSE "steps"
        /\ sched' = [Mastered(sched, m) EXCEPT
                        !.pending = IF m.panicked THEN {} ELSE Positions,
                        !.visits = [i \in 1..Len(nodes) |-> 0]]
    /\ UNCHANGED <<settings, nodes, wards, votes, fed>>

\* async_runner lines 30-32: the ids are shuffled and chunked; chunks(0) panics
AsyncRound ==
    /\ pc = "loop"
    /\ Style.kind = "async"
    /\ sim.round < MaxIter
    /\ \E node_ids \in Shuffles([i \in 1..Len(nodes) |-> i - 1]) :
        LET chunks == IF Style.chunks = 0 THEN <<>> ELSE Chunks(node_ids, Style.chunks) IN
        /\ sched' = [sched EXCEPT !.chunks = chunks,
                                   !.visits = [i \in 1..Len(nodes) |-> 0]]
        /\ IF Style.chunks = 0
           THEN /\ sim' = sim
                /\ pc' = "panic"
           ELSE IF chunks = <<>>
           THEN /\ sim' = [sim EXCEPT !.round = @ + 1]
                /\ pc' = "wards"
           ELSE /\ sim' = sim
                /\ pc' = "chunk"
    /\ UNCHANGED <<settings, nodes, network_state, master, wards, votes, fed>>

\* async_runner lines 33-36: the master steps before the chunk
AsyncChunk ==
    /\ pc = "chunk"
    /\ LET m == master_step(master, network_state) IN
        /\ master' = m.master
        /\ network_state' = m.network_state
        /\ pc' = IF m.panicked THEN "panic" ELSE "steps"
        /\ sched' = [Mastered(sched, m) EXCEPT
                        !.pending = IF m.panicked THEN {}
                                    ELSE Head(sched.chunks) \cap Positions]
    /\ UNCHANGED <<settings, nodes, sim, wards, votes, fed>>

\* the vote of a stepped node written into the vector at once
map_vote_written(ns, position, vote) == [ns EXCEPT ![position + 1] = vote]

\* the vector after the closure of the parallel map ran on a position: the
\* closure returns node.vote() to collect() and leaves the vector alone
map_vote(ns, position, vote) == ns

\* the closure of the parallel map on one node (run_step line 349,
\* async_runner line 45); the map visits the nodes in any order
NodeStep ==
    /\ pc = "steps"
    /\ \E position \in sched.pending :
        /\ \E stepped \in NodeSteps(settings.consensus_settings, network_state,
                                    At(nodes, position)) :
                /\ StepNodeAt(position, stepped)
                /\ network_state' = map_vote(network_state, position, NodeVote(stepped, master))
                /\ pc' = after_step(stepped, pc)
        /\ sched' = [Stepped(sched, position, sim) EXCEPT
                        !.pending = @ \ {position},
                        !.visits[position + 1] = @ + 1]
    /\ UNCHANGED <<settings, master, sim, wards, votes>>

\* a collect() that returns while closures of the map are still to run
map_finished_early(pending) == TRUE

\* par_iter_mut().map(..).collect() returns once the closure ran on every
\* node of the vector
map_finished(pending) == pending = {}

\* run_step line 352 and set_new_network_state: the votes are collected
SyncCollect ==
    /\ pc = "steps"
    /\ Style.kind = "sync"
    /\ map_finished(sched.pending)
    /\ network_state' = network_state_from_nodes(nodes, master)
    /\ pc' = "wards"
    /\ sched' = [sched EXCEPT !.snapshot = network_state', !.mastered = FALSE]
    /\ UNCHANGED <<settings, nodes, master, sim, wards, votes, fed>>

\* async_runner lines 51-56: the votes are collected and the chunk ends
AsyncCollect ==
    /\ pc = "steps"
    /\ Style.kind = "async"
    /\ map_finished(sched.pending)
    /\ network_state' = network_state_from_nodes(nodes, master)
    /\ sched' = [sched EXCEPT !.chunks = Tail(@), !.snapshot = network_state',
                               !.mastered = FALSE]
    /\ IF Tail(sched.chunks) = <<>>
       THEN /\ sim' = [iteration |-> sim.iteration + 1, round |-> sim.round + 1]
            /\ pc' = "wards"
       ELSE /\ sim' = [sim EXCEPT !.iteration = @ + 1]
            /\ pc' = "chunk"
    /\ UNCHANGED <<settings, nodes, master, wards, votes, fed>>

\* nodes_remaining of a runner that never removes a node
glauber_remaining_kept(remaining, node_id, decision) == remaining

\* glauber_runner lines 49-51: a node that decided leaves nodes_remaining
glauber_remaining(remaining, node_id, decision) ==
    IF decision.decided THEN remaining \ {node_id} ELSE remaining

\* glauber_runner lines 29-55: one pass of the loop body up to the wards;
\* iterations.chunks(update_rate) panics on a chunk size of 0
GlauberStep ==
    /\ pc = "loop"
    /\ Style.kind = "glauber"
    /\ IF Style.update_rate = 0
       THEN /\ pc' = "panic"
            /\ UNCHANGED <<nodes, network_state, sim, sched, fed>>
       ELSE IF sched.next >= Style.maximum_iterations
       THEN /\ pc' = "done"
            /\ UNCHANGED <<nodes, network_state, sim, sched, fed>>
       ELSE /\ sim' = [sim EXCEPT !.iteration = sched.next]
            /\ IF sched.remaining = {}
               THEN /\ pc' = "done"
                    /\ UNCHANGED <<nodes, network_state, sched, fed>>
               ELSE \E node_id \in sched.remaining :
                    \E stepped \in NodeSteps(settings.consensus_settings, network_state,
                                             At(nodes, node_id)) :
                        /\ StepNodeAt(node_id, stepped)
                        /\ sched' = [Stepped(sched, node_id, sim') EXCEPT
                                !.remaining = glauber_remaining(
                                        @, node_id, NodeDecision(stepped, master))]
                        /\ network_state' = update_single_network_state_vote(
                                network_state, node_id, NodeVote(stepped, master))
                        /\ pc' = after_step(stepped, "wards")
    /\ UNCHANGED <<settings, master, wards, votes>>

\* layered_runner lines 65-84: a layer and a node of it are chosen, the node
\* steps and moves to the next layer unless it decided
LayeredStep ==
    /\ pc = "loop"
    /\ Style.kind = "layered"
    /\ sim.iteration < MaxIter
    /\ LET layers == {i \in 0..(Style.rounds_gap - 1) : At(sched.deque, i) # {}} IN
       IF layers = {}
       THEN /\ pc' = "panic"
            /\ UNCHANGED <<nodes, network_state, sched, fed>>
       ELSE \E group_index \in layers :
            \E node_id \in At(sched.deque, group_index) :
                LET removed == [sched.deque EXCEPT ![group_index + 1] = @ \ {node_id}] IN
                IF ~InRange(nodes, node_id)
                THEN /\ pc' = "panic"
                     /\ sched' = [sched EXCEPT !.deque = removed]
                     /\ UNCHANGED <<nodes, network_state, fed>>
                ELSE \E stepped \in NodeSteps(settings.consensus_settings, network_state,
                                              At(nodes, node_id)) :
                        /\ StepNodeAt(node_id, stepped)
                        /\ sched' = [Stepped(sched, node_id, sim) EXCEPT
                                !.visits[node_id + 1] = @ + 1,
                                !.deque = IF NodeDecision(stepped, master).decided THEN removed
                                          ELSE [removed EXCEPT ![group_index + 2] = @ \cup {node_id}]]
                        /\ network_state' = update_single_network_state_vote(
                                network_state, node_id, NodeVote(stepped, master))
                        /\ pc' = after_step(stepped, "wards")
    /\ UNCHANGED <<settings, master, sim, wards, votes>>

\* warding::SimulationState as the runners hand it to the wards
SimulationState ==
    [nodes |-> nodes, master |-> master, network_state |-> network_state,
     iteration |-> sim.iteration, round |-> sim.round]

\* a runner that goes on whatever check_wards returned
after_wards_ignored(stop) == "modifiers"

\* if runner.check_wards(&state) { break; }
after_wards(stop) == IF stop THEN "done" ELSE "modifiers"

\* check_wards: every ward analyzes the state; the parallel any() may leave
\* wards unvisited once one of them has fired
CheckWards ==
    /\ pc = "wards"
    /\ LET verdicts == [k \in 1..Len(wards) |->
                            analyze(settings.wards[k], wards[k], SimulationState)]
           fired == {k \in 1..Len(wards) : verdicts[k].fired}
       IN  /\ IF fired = {}
              THEN wards' = [k \in 1..Len(wards) |-> verdicts[k].state]
              ELSE \E visited \in SUBSET (1..Len(wards)) :
                    /\ visited \cap fired # {}
                    /\ wards' = [k \in 1..Len(wards) |->
                                    IF k \in visited THEN verdicts[k].state ELSE wards[k]]
           /\ pc' = after_wards(fired # {})
    /\ sched' = [sched EXCEPT !.unwarded = {}]
    /\ UNCHANGED <<settings, nodes, network_state, master, sim, votes, fed>>

\* run_network_behaviour_modifiers, and the end of the loop body of the
\* sync, async and Glauber runners
RunModifiers ==
    /\ pc = "modifiers"
    /\ network_state' \in run_network_behaviour_modifiers(network_state, settings.network_modifiers)
    /\ pc' = IF Style.kind = "layered" THEN "advance" ELSE "loop"
    /\ sched' = [sched EXCEPT !.next = IF Style.kind = "glauber" THEN @ + 1 ELSE @,
                               !.snapshot = network_state',
                               !.mastered = FALSE]
    /\ UNCHANGED <<settings, nodes, master, sim, wards, votes, fed>>

\* layered_runner lines 92-105: the end of the loop body
LayeredAdvance ==
    /\ pc = "advance"
    /\ LET finished == sched.deque[1] = {}
           deque == IF finished
                    THEN push_back(sched.deque, Style.rounds_gap + 1, {}) ELSE sched.deque
       IN  /\ sim' = [iteration |-> sim.iteration + 1,
                      round |-> IF finished THEN sim.round + 1 ELSE sim.round]
           /\ sched' = [sched EXCEPT !.deque = deque]
           /\ pc' = IF \A i \in 1..Len(deque) : deque[i] = {} THEN "done" ELSE "loop"
    /\ UNCHANGED <<settings, nodes, network_state, master, wards, votes, fed>>

Next ==
    \/ SyncIteration
    \/ AsyncRound
    \/ AsyncChunk
    \/ NodeStep
    \/ SyncCollect
    \/ AsyncCollect
    \/ GlauberStep
    \/ LayeredStep
    \/ CheckWards
    \/ RunModifiers
    \/ LayeredAdvance

Spec == Init /\ [][Next]_vars

\* The Glauber runner on its own, followed to the end of its loop: on every
\* population, and with every ward list, modifier list and loop setting on
\* the populations of three nodes.  simulate is one sequential loop, so the
\* runner always takes its next step (weak fairness).
GlauberStyles ==
    [kind : {"glauber"}, maximum_iterations : {0, MaxIter + 1}, update_rate : {0, 1}]

GlauberSettings ==
    [consensus_settings : {SimSnowball},
     distribution : InitialDistributions,
     byzantine_settings : [total_size : 1..MaxNodes, distribution : ByzantineDistributions],
     wards : {<<>>},
     network_modifiers : {<<>>},
     simulation_style : {[kind |-> "glauber", maximum_iterations |-> MaxIter + 1,
                          update_rate |-> 1]}]
    \cup
    [consensus_settings : {SimSnowball},
     distribution : {<<1, 1, 0>>},
     byzantine_settings : [total_size : {3}, distribution : ByzantineDistributions],
     wards : WardLists,
     network_modifiers : ModifierLists,
     simulation_style : GlauberStyles]

InitGlauber == InitWith(GlauberSettings)

NextGlauber ==
    \/ GlauberStep
    \/ CheckWards
    \/ RunModifiers

SpecGlauber == InitGlauber /\ [][NextGlauber]_vars /\ WF_vars(NextGlauber)

-----------------------------------------------------------------------------
(* Properties of the simulation *)

Honest(n) == n.kind \in {"snowball", "claro"}

\* C1: once the decision of an honest (Snowball or Claro) node is Decided(o),
\* no step of any runner changes it: every transition leaves the decision of
\* every decided honest node as it was.
C1_DecidedIsFinal ==
    [][\A i \in 1..Len(nodes) :
          (Honest(nodes[i]) /\ nodes[i].decision.decided)
              => nodes'[i].decision = nodes[i].decision]_vars

\* node.step() was called on an honest node that was already decided and
\* that still holds that decision
C1_Witness ==
    /\ sched.stepped >= 0
    /\ Honest(fed.before)
    /\ fed.before.decision.decided
    /\ At(nodes, sched.stepped).id = fed.before.id
    /\ At(nodes, sched.stepped).decision = fed.before.decision

\* the opinion the node at element i of the nodes vector currently holds
OpinionAt(i) ==
    IF nodes[i].kind = "omniscient" THEN master.decision.opinion
    ELSE nodes[i].decision.opinion

\* C2: whenever a runner is outside the parallel map over the nodes, that is
\* once the votes of an iteration are written and also once the modifiers
\* ran, every entry of the shared vector is absent or is the vote of the
\* current opinion of the node at that index: Yes only for a Yes opinion and
\* No only for a No opinion.
C2_VectorMatchesOpinions ==
    pc # "steps" =>
        \A i \in 1..Len(network_state) :
            /\ i <= Len(nodes)
            /\ \/ network_state[i] = "None"
               \/ network_state[i] = "Yes" /\ OpinionAt(i) = "Yes"
               \/ network_state[i] = "No" /\ OpinionAt(i) = "No"

\* an iteration ended with the votes written and the modifiers run: one vote
\* was dropped and another one is still published
C2_Witness ==
    /\ pc = "loop"
    /\ sched.stepped >= 0
    /\ \E i \in 1..Len(network_state) : network_state[i] = "None" /\ OpinionAt(i) # "None"
    /\ \E j \in 1..Len(network_state) : network_state[j] # "None"

\* C3: for every settings, after construction and after every iteration the
\* shared vector has length total_size and the node at index i has id i.
C3_VectorLengthAndIds ==
    pc \in {"loop", "done"} =>
        /\ Len(network_state) = settings.byzantine_settings.total_size
        /\ Len(nodes) = Len(network_state)
        /\ \A i \in 1..Len(nodes) : nodes[i].id = i - 1

\* C11: in every runner (sync, async, Glauber, layered), when a master is
\* present, node.step() is called on a node of the nodes vector only once
\* the master has stepped in the current iteration.
C11_MasterStepsFirst ==
    [][(master.present /\ sched'.steps > sched.steps) => sched.mastered]_vars

\* the iteration counters, and the round counters, under which nodes were
\* stepped since the wards were last evaluated
UnwardedIterations == {p[1] : p \in sched.unwarded}
UnwardedRounds == {p[2] : p \in sched.unwarded}

\* some configured ward returns true on the current simulation state
SomeWardFires ==
    \E k \in 1..Len(wards) : analyze(settings.wards[k], wards[k], SimulationState).fired

\* C12 as stated: in every runner the wards are evaluated after every
\* advance of the iteration counter, so the nodes stepped since the last
\* evaluation were all stepped under one value of that counter.
C12_WardsAfterEveryIteration == Cardinality(UnwardedIterations) <= 1

\* C12 as amended: the wards are evaluated once per pass of the runner's
\* loop, which is after every iteration in the sync, Glauber and layered
\* runners and after every round in the async runner; at the first
\* evaluation at which a ward fires the run stops, and no node is stepped
\* after that.
C12_WardsAfterEveryPass ==
    /\ [](/\ Style.kind # "async" => Cardinality(UnwardedIterations) <= 1
          /\ Cardinality(UnwardedRounds) <= 1)
    /\ [][/\ (pc = "wards" /\ SomeWardFires) => pc' = "done"
          /\ pc = "done" => sched'.steps = sched.steps]_vars

\* an async run that a ward stopped after a round of several chunks
C12_Witness ==
    /\ pc = "done"
    /\ Style.kind = "async"
    /\ sim.iteration > sim.round
    /\ sched.steps > 0

\* every node of the population is Decided
AllDecided == \A i \in 1..Len(nodes) : NodeDecision(nodes[i], master).decided

\* C13: the Glauber runner steps exactly one node per iteration, chosen among
\* the nodes that are not Decided; it stops exactly when every node is
\* Decided, when a ward fires or after maximum_iterations iterations, so it
\* never steps more than maximum_iterations nodes; and every run ends.
C13_GlauberBoundedRun ==
    /\ [](Style.kind = "glauber" =>
            /\ sched.steps <= Style.maximum_iterations
            /\ pc = "loop" => sched.steps = sched.next
            /\ pc \in {"wards", "modifiers"} => sched.steps = sched.next + 1
            /\ sched.stepped >= 0 => ~NodeDecision(fed.before, master).decided)
    /\ [][Style.kind = "glauber" =>
            ((pc # "done" /\ pc' = "done") <=>
                \/ pc = "wards" /\ SomeWardFires
                \/ /\ pc = "loop"
                   /\ Style.update_rate # 0
                   /\ AllDecided \/ sched.next >= Style.maximum_iterations)]_vars
    /\ <>(pc \in {"done", "panic"})

\* a Glauber run of several nodes that stopped before maximum_iterations
\* because every node had decided
C13_Witness ==
    /\ Style.kind = "glauber"
    /\ pc = "done"
    /\ Len(nodes) >= 2
    /\ AllDecided
    /\ sched.steps = sched.next
    /\ sched.next < Style.maximum_iterations

\* the slots of the vector the master writes in its step
PuppetSlots ==
    IF master.present THEN {i \in 1..Len(network_state) : i - 1 \in Range(master.omniscient_nodes_ids)}
    ELSE {}

\* every node was stepped exactly once in the pass that just ended, and a
\* node still to be visited in the running pass was not stepped yet
SteppedOnce ==
    /\ pc = "wards" => \A i \in 1..Len(nodes) : sched.visits[i] = 1
    /\ pc = "steps" => \A i \in 1..Len(nodes) : sched.visits[i] <= 1

\* C14 as stated: under the sync runner every node is stepped exactly once per
\* iteration and, while the nodes of iteration i step, the vector is exactly
\* the vector left at the end of iteration i-1.
C14_StepsSeeLastIteration ==
    Style.kind = "sync" =>
        /\ SteppedOnce
        /\ pc = "steps" => network_state = sched.snapshot

\* C14: under the sync runner every node is stepped exactly once per
\* iteration; while the nodes of iteration i step, the vector is the one left
\* at the end of iteration i-1 except in the slots the master wrote when it
\* stepped at the start of iteration i; and no step of a node writes the
\* vector, so no step of iteration i sees the vote of another.
C14_StepsSeeLastIterationAndMaster ==
    /\ [](Style.kind = "sync" =>
            /\ SteppedOnce
            /\ pc = "steps" =>
                \A i \in 1..Len(network_state) :
                    i \notin PuppetSlots => network_state[i] = sched.snapshot[i])
    /\ [][(Style.kind = "sync" /\ pc = "steps" /\ pc' = "steps")
            => network_state' = network_state]_vars

\* a sync iteration in which the master rewrote a slot and a node that
\* stepped changed its vote, which the vector does not show yet
C14_Witness ==
    /\ Style.kind = "sync"
    /\ pc = "steps"
    /\ network_state # sched.snapshot
    /\ sched.pending # {}
    /\ \E i \in 1..Len(nodes) :
        /\ sched.visits[i] = 1
        /\ NodeVote(nodes[i], master) # network_state[i]

\* the chunks of the round still to run are of one to C ids, and no node is
\* stepped twice in a round; when the round ends every node was stepped once
ChunkedOnce ==
    /\ \A k \in 1..Len(sched.chunks) :
        /\ Cardinality(sched.chunks[k]) <= Style.chunks
        /\ sched.chunks[k] # {}
    /\ \A i \in 1..Len(nodes) : sched.visits[i] <= 1
    /\ pc = "wards" => \A i \in 1..Len(nodes) : sched.visits[i] = 1

\* C15 as stated: under the async runner the permutation is cut into chunks
\* of at most C ids, every node is stepped once per round, and the steps of a
\* chunk see the vector exactly as the previous chunk left it.
C15_ChunkSeesPreviousChunk ==
    (Style.kind = "async" /\ pc # "panic") =>
        /\ ChunkedOnce
        /\ pc = "steps" => network_state = sched.snapshot

\* C15: under the async runner the permutation is cut into chunks of at
\* most C ids and every node is stepped exactly once per round; the votes of
\* a chunk are in the vector before the next chunk starts, and the steps of a
\* chunk see the vector as the previous chunk (and the modifiers after it, if
\* it ended a round) left it except in the slots the master wrote before the
\* chunk; the round counter goes up by one exactly when the last chunk of
\* the round ends.
C15_ChunkSeesPreviousChunkAndMaster ==
    /\ []((Style.kind = "async" /\ pc # "panic") =>
            /\ ChunkedOnce
            /\ pc = "chunk" => network_state = sched.snapshot
            /\ pc = "steps" =>
                \A i \in 1..Len(network_state) :
                    i \notin PuppetSlots => network_state[i] = sched.snapshot[i])
    /\ [][Style.kind = "async" =>
            /\ (pc = "steps" /\ pc' = "steps") => network_state' = network_state
            /\ (pc = "steps" /\ pc' # "steps") =>
                    network_state' = network_state_from_nodes(nodes, master)
            /\ sim'.round # sim.round =>
                /\ sim'.round = sim.round + 1
                /\ \/ pc = "steps" /\ sched.pending = {} /\ Len(sched.chunks) = 1
                   \/ pc = "loop" /\ nodes = <<>>
            /\ (pc = "steps" /\ pc' # "steps" /\ Len(sched.chunks) = 1)
                    => sim'.round = sim.round + 1]_vars

\* the second chunk of an async round is running on a vector that shows the
\* votes of the first chunk and a slot rewritten by the master
C15_Witness ==
    /\ Style.kind = "async"
    /\ pc = "steps"
    /\ Len(sched.chunks) = 1
    /\ \E i \in 1..Len(nodes) : sched.visits[i] = 1 /\ i - 1 \notin sched.pending
    /\ \E i \in 1..Len(nodes) : sched.visits[i] = 0
    /\ network_state # sched.snapshot

\* the layers the layered runner draws from hold an id
SomeLayerHoldsAnId == \E k \in 0..(Style.rounds_gap - 1) : At(sched.deque, k) # {}

\* one iteration of the layered runner as the claim describes it: an id
\* leaves a non-empty layer k < gap, the node of that id is stepped and no
\* other, and the id enters layer k+1 iff the node is not Decided
LayeredIteration ==
    \E k \in 0..(Style.rounds_gap - 1) :
        \E id \in At(sched.deque, k) :
            LET removed == [sched.deque EXCEPT ![k + 1] = @ \ {id}] IN
            /\ pc' = "wards"
            /\ InRange(nodes, id)
            /\ At(nodes, id).id = id
            /\ sched'.stepped = id
            /\ sched'.steps = sched.steps + 1
            /\ \A j \in 1..Len(nodes) : j # id + 1 => nodes'[j] = nodes[j]
            /\ sched'.deque = IF NodeDecision(nodes'[id + 1], master).decided THEN removed
                              ELSE [removed EXCEPT ![k + 2] = @ \cup {id}]

\* the end of an iteration as the claim describes it: a fresh layer and the
\* next round iff layer 0 is empty
LayeredRound ==
    IF sched.deque[1] = {}
    THEN /\ sim'.round = sim.round + 1
         /\ sched'.deque = Tail(sched.deque) \o <<{}>>
    ELSE /\ sim'.round = sim.round
         /\ sched'.deque = sched.deque

\* C16: each iteration of the layered runner removes one id from a non-empty
\* layer k < gap, steps that node and re-inserts the id into layer k+1 iff
\* the node is still Undecided; when layer 0 is empty after an iteration a
\* fresh layer is pushed and round goes up by one; the run ends exactly when
\* every layer is empty or a ward fires.
C16_LayeredIterations ==
    [][Style.kind = "layered" =>
        /\ (pc = "loop" /\ SomeLayerHoldsAnId) => LayeredIteration
        /\ pc = "advance" => LayeredRound
        /\ (pc # "done" /\ pc' = "done") <=>
                \/ pc = "wards" /\ SomeWardFires
                \/ pc = "advance" /\ \A i \in 1..Len(sched'.deque) : sched'.deque[i] = {}]_vars

-----------------------------------------------------------------------------
(* The wards on their own: analyze is called on simulation states of every  *)
(* shape a runner can hand it, until the ward fires.  pc is "observe" before *)
(* a call of analyze, and "fired" or "quiet" after it; sched.steps counts    *)
(* the samples a StabilisedWard has taken since the start and sched.next is  *)
(* the round of the last of them.                                            *)

MaxWardNodes == 2
MaxRound == 3

HarnessWards ==
    [kind : {"time_to_finality"}, ttf_threshold : 0..(MaxRound - 1)]
    \cup [kind : {"converged"}, ratio : {<<0, 1>>, <<1, 2>>, <<1, 1>>}]
    \cup [kind : {"stabilised"}, buffer : 1..2,
          check : {[type |-> "rounds"]} \cup [type : {"iterations"}, chunk : 1..2]]

\* the decisions a node can hold and move to under a ward of a kind: the
\* Converged ward reads whether nodes decided, the Stabilised ward reads the
\* votes, the TimeToFinality ward reads neither
Decisions(kind) ==
    CASE kind = "converged" -> {Undecided("None"), Decided("Yes"), Decided("No")}
      [] kind = "stabilised" -> {Undecided(o) : o \in Opinions}
      [] OTHER -> {}

\* populations of honest nodes, of every size from none
WardPopulations(kind) ==
    UNION {{[i \in 1..n |-> [HonestNode(SimSnowball, n, i - 1, "None") EXCEPT !.decision = d[i]]] :
                d \in [1..n -> Decisions(kind)]} : n \in 0..MaxWardNodes}

InitWards ==
    \E w \in HarnessWards, iteration \in 0..1, round \in 0..1 :
        \E ns \in WardPopulations(w.kind) :
            /\ settings = [consensus_settings |-> SimSnowball,
                           distribution |-> <<1, 1, 0>>,
                           byzantine_settings |-> [total_size |-> Len(ns),
                                                   distribution |-> <<8, 0, 0, 0>>],
                           wards |-> <<w>>,
                           network_modifiers |-> <<>>,
                           simulation_style |-> [kind |-> "sync"]]
            /\ nodes = ns
            /\ master = NoMaster
            /\ network_state = network_state_from_nodes(ns, NoMaster)
            /\ sim = [iteration |-> iteration, round |-> round]
            /\ pc = "observe"
            /\ sched = IdleSched
            /\ wards = <<NewWardState>>
            /\ votes = <<>>
            /\ fed = FedNothing(NoNode)

\* check_wards on the one ward of the settings
WardAnalyze ==
    /\ pc = "observe"
    /\ LET w == settings.wards[1]
           verdict == analyze(w, wards[1], SimulationState)
           sampled == w.kind = "stabilised" /\ should_check(w.check, wards[1], SimulationState)
       IN  /\ wards' = <<verdict.state>>
           /\ pc' = IF verdict.fired THEN "fired" ELSE "quiet"
           /\ sched' = [sched EXCEPT !.steps = IF sampled THEN @ + 1 ELSE @,
                                      !.next = IF sampled THEN sim.round ELSE @]
    /\ UNCHANGED <<settings, nodes, network_state, master, sim, votes, fed>>

\* the simulation goes on to the next call of check_wards: the counters
\* advance, a node that has not decided may change its decision (to no
\* opinion too, which leaves its slot of the vector empty as a drop does)
WardAdvance ==
    /\ pc = "quiet"
    /\ \E iteration \in {sim.iteration, sim.iteration + 1}, round \in {sim.round, sim.round + 1} :
        /\ <<iteration, round>> # <<sim.iteration, sim.round>>
        /\ round <= MaxRound
        /\ iteration <= MaxRound
        /\ sim' = [iteration |-> iteration, round |-> round]
    /\ \E changed \in {nodes} \cup {[nodes EXCEPT ![i].decision = d] :
                                        i \in {j \in 1..Len(nodes) : ~nodes[j].decision.decided},
                                        d \in Decisions(settings.wards[1].kind)} :
        /\ nodes' = changed
        /\ network_state' = network_state_from_nodes(changed, master)
    /\ pc' = "observe"
    /\ UNCHANGED <<settings, master, sched, wards, votes, fed>>

NextWards ==
    \/ WardAnalyze
    \/ WardAdvance

SpecWards == InitWards /\ [][NextWards]_vars

\* the one ward of the settings
TheWard == settings.wards[1]

\* the number of Decided nodes
TotalDecided == Cardinality({i \in 1..Len(nodes) : nodes[i].decision.decided})

\* C17: the Converged(rho) ward fires exactly when the fraction of Decided
\* nodes is at least rho, and with rho = 1 it fires iff every node is Decided.
C17_ConvergedFiresOnRatio ==
    (TheWard.kind = "converged" /\ pc \in {"fired", "quiet"}) =>
        /\ Len(nodes) > 0 =>
            (pc = "fired" <=> TotalDecided * TheWard.ratio[2] >= TheWard.ratio[1] * Len(nodes))
        /\ TheWard.ratio = <<1, 1>> => (pc = "fired" <=> AllDecided)

\* the gate of the Stabilised ward as the claim words it
GatePasses ==
    IF TheWard.check.type = "iterations" THEN sim.iteration % TheWard.check.chunk = 0
    ELSE sim.round > sched.next

\* the last n entries of a sequence
LastN(s, n) == IF Len(s) > n THEN SubSeq(s, Len(s) - n + 1, Len(s)) ELSE s

\* C18: a call of analyze on the Stabilised(N, check) ward samples the
\* (yes, no) counts of the vector only when the gate passes, the buffer keeps
\* only the last N samples, the call returns true iff it sampled and the
\* buffer then holds N equal samples; the ward never fires before N samples
\* were taken.
C18_StabilisedSamplesAndFires ==
    /\ [][(TheWard.kind = "stabilised" /\ pc = "observe" /\ pc' # "observe") =>
            LET sample == <<CountTag(network_state, "Yes"), CountTag(network_state, "No")>>
                buffer == wards'[1].buffer
            IN  /\ buffer = IF GatePasses THEN LastN(Append(wards[1].buffer, sample), TheWard.buffer)
                            ELSE wards[1].buffer
                /\ sched'.steps = IF GatePasses THEN sched.steps + 1 ELSE sched.steps
                /\ pc' = "fired" <=>
                        /\ GatePasses
                        /\ Len(buffer) = TheWard.buffer
                        /\ \A i, j \in 1..Len(buffer) : buffer[i] = buffer[j]]_vars
    /\ []((TheWard.kind = "stabilised" /\ pc = "fired") => sched.steps >= TheWard.buffer)

\* a Stabilised ward of two samples fired on its third sample, when the
\* first sample had left the buffer
C18_Witness ==
    /\ TheWard.kind = "stabilised"
    /\ TheWard.buffer = 2
    /\ pc = "fired"
    /\ sched.steps = 3
    /\ sim.iteration + sim.round > 3

\* C19: a call of analyze on the TimeToFinality(T) ward returns true iff the
\* round of the state is greater than T; on rounds that go up one at a time
\* the first call that returns true is at round T+1.
C19_TimeToFinalityFiresAfterT ==
    (TheWard.kind = "time_to_finality" /\ pc \in {"fired", "quiet"}) =>
        /\ pc = "fired" <=> sim.round > TheWard.ttf_threshold
        /\ pc = "fired" => sim.round = TheWard.ttf_threshold + 1

\* a TimeToFinality ward of threshold 2 fired at round 3, after calls at
\* lower rounds
C19_Witness ==
    /\ TheWard.kind = "time_to_finality"
    /\ TheWard.ttf_threshold = 2
    /\ pc = "fired"
    /\ sim.round = 3

-----------------------------------------------------------------------------
(* RandomDrop on its own: the modifier is applied once to a vector of votes. *)
(* pc is "modify" before the call and "modified" after it; sched.snapshot is *)
(* the vector before the call.                                               *)

MaxDropLen == 3

\* the length of the vectors of the tests of drop.rs
TestVotes == 10

\* rates below, in and above [0, 1]
DropRates == {<<0 - 1, 2>>, <<0, 1>>, <<1, 4>>, <<1, 2>>, <<3, 4>>, <<1, 1>>, <<3, 2>>}

\* every vector of up to MaxDropLen votes under every rate, and the vector
\* of the tests under their rates
DropInputs ==
    (UNION {[1..n -> VoteTags \cup {"None"}] : n \in 0..MaxDropLen}) \X DropRates
    \cup {[i \in 1..TestVotes |-> "Yes"]} \X {<<0, 1>>, <<1, 2>>, <<1, 1>>}

InitDrop ==
    \E input \in DropInputs :
        /\ settings = [consensus_settings |-> SimSnowball,
                       distribution |-> <<1, 1, 0>>,
                       byzantine_settings |-> [total_size |-> Len(input[1]),
                                               distribution |-> <<8, 0, 0, 0>>],
                       wards |-> <<>>,
                       network_modifiers |-> <<[kind |-> "random_drop", drop_rate |-> input[2]]>>,
                       simulation_style |-> [kind |-> "sync"]]
        /\ nodes = <<>>
        /\ master = NoMaster
        /\ network_state = input[1]
        /\ sim = [iteration |-> 0, round |-> 0]
        /\ pc = "modify"
        /\ sched = [IdleSched EXCEPT !.snapshot = input[1]]
        /\ wards = <<>>
        /\ votes = <<>>
        /\ fed = FedNothing(NoNode)

\* run_network_behaviour_modifiers on the vector
DropModify ==
    /\ pc = "modify"
    /\ network_state' \in run_network_behaviour_modifiers(network_state, settings.network_modifiers)
    /\ pc' = "modified"
    /\ UNCHANGED <<settings, nodes, master, sim, sched, wards, votes, fed>>

SpecDrop == InitDrop /\ [][DropModify]_vars

\* the rate of the modifier
DropRate == settings.network_modifiers[1].drop_rate

\* round(clamp(r, 0, 1) * n), spelled out
DropAmount(n) ==
    IF DropRate[1] <= 0 THEN 0
    ELSE IF DropRate[1] >= DropRate[2] THEN n
    ELSE Round(DropRate[1] * n, DropRate[2])

\* the votes present in a vector
Present(ns) == {i \in 1..Len(ns) : ns[i] # "None"}

\* C20: RandomDrop(r) on a vector of n entries sets exactly
\* round(clamp(r, 0, 1) * n) distinct entries to absent and leaves the
\* others alone; with r = 0 the vector is unchanged, with r = 1 every entry
\* is absent, and of n present entries n - round(r * n) stay present.
C20_RandomDropAmount ==
    pc = "modified" =>
        LET before == sched.snapshot
            n == Len(before)
        IN  /\ Len(network_state) = n
            /\ \E dropped \in SUBSET (1..n) :
                /\ Cardinality(dropped) = DropAmount(n)
                /\ \A i \in 1..n :
                    network_state[i] = IF i \in dropped THEN "None" ELSE before[i]
            /\ DropRate = <<0, 1>> => network_state = before
            /\ DropRate = <<1, 1>> => Present(network_state) = {}
            /\ (Present(before) = 1..n /\ DropRate[1] >= 0 /\ DropRate[1] <= DropRate[2]) =>
                    Cardinality(Present(network_state)) = n - Round(DropRate[1] * n, DropRate[2])

\* half of the ten votes of the test were dropped
C20_Witness ==
    /\ pc = "modified"
    /\ Len(network_state) = TestVotes
    /\ DropRate = <<1, 2>>
    /\ Cardinality(Present(sched.snapshot)) = 10
    /\ Cardinality(Present(network_state)) = 5

-----------------------------------------------------------------------------
(* consensus/claro/src/query.rs: NodeQuery::sample on its own.  settings is  *)
(* the NodeQuery, sched.visits the ids of the NodesSample and sched.deque    *)
(* their weights; pc is "query" before the call and "sampled" after it, when *)
(* votes holds the ids returned.                                             *)

MaxIds == 4

\* the id of a caller that is not in the population (the tests use "")
NoId == 0 - 1

\* the sequences of n distinct elements of a set
Arrangements(S, n) == {a \in [1..n -> S] : \A i, j \in 1..n : i # j => a[i] # a[j]}

\* SliceRandom::choose_multiple_weighted with positive weights: amount
\* elements, or all of them if there are fewer, no element twice; every
\* selection has a positive probability
choose_multiple_weighted(items, amount, weights) ==
    Arrangements(Range(items), Min(amount, Len(items)))

RECURSIVE FilterOut(_, _)
\* filter(|node_id| node_id != &self.node_id)
FilterOut(ids, node_id) ==
    IF ids = <<>> THEN <<>>
    ELSE IF Head(ids) = node_id THEN FilterOut(Tail(ids), node_id)
    ELSE <<Head(ids)>> \o FilterOut(Tail(ids), node_id)

\* a query that draws node_size ids where the code draws node_size + 1
sample_exact(query, node_ids, weights) ==
    {Take(FilterOut(chosen, query.node_id), query.node_size) :
        chosen \in choose_multiple_weighted(node_ids, query.node_size, weights)}

\* NodeQuery::sample: the vectors of ids it can return
sample(query, node_ids, weights) ==
    {Take(FilterOut(chosen, query.node_id), query.node_size) :
        chosen \in choose_multiple_weighted(node_ids, query.node_size + 1, weights)}

\* populations of distinct ids in ascending order
QueryPopulations ==
    {CHOOSE a \in Arrangements(S, Cardinality(S)) :
        \A i, j \in 1..Cardinality(S) : i < j => a[i] < a[j] : S \in SUBSET (0..(MaxIds - 1))}

InitQuery ==
    \E node_ids \in QueryPopulations, node_size \in 0..MaxIds,
       node_id \in {NoId} \cup 0..(MaxIds - 1) :
        \E weights \in [1..Len(node_ids) -> 1..2] :
            /\ settings = [node_size |-> node_size, node_id |-> node_id]
            /\ nodes = <<>>
            /\ master = NoMaster
            /\ network_state = <<>>
            /\ sim = [iteration |-> 0, round |-> 0]
            /\ pc = "query"
            /\ sched = [IdleSched EXCEPT !.visits = node_ids, !.deque = weights]
            /\ wards = <<>>
            /\ votes = <<>>
            /\ fed = FedNothing(NoNode)

\* query.sample(&node_sample)
QuerySample ==
    /\ pc = "query"
    /\ votes' \in sample(settings, sched.visits, sched.deque)
    /\ pc' = "sampled"
    /\ UNCHANGED <<settings, nodes, network_state, master, sim, sched, wards, fed>>

SpecQuery == InitQuery /\ [][QuerySample]_vars

\* the ids of the population other than the caller's
\* C21: NodeQuery::sample with query size K on a population of distinct ids
\* with positive weights returns at most K ids of the population, pairwise
\* distinct and none the caller's own; it returns exactly K when the
\* population holds at least K ids other than the caller's.
C21_SampleDistinctWithoutSelf ==
    pc = "sampled" =>
        LET OtherIds == Range(sched.visits) \ {settings.node_id} IN
        /\ Len(votes) <= settings.node_size
        /\ \A i, j \in 1..Len(votes) : i # j => votes[i] # votes[j]
        /\ Range(votes) \subseteq OtherIds
        /\ Cardinality(OtherIds) >= settings.node_size => Len(votes) = settings.node_size

\* a sample of exactly K ids from a population that holds the caller and
\* exactly K others
C21_Witness ==
    /\ pc = "sampled"
    /\ settings.node_size = MaxIds - 1
    /\ settings.node_id \in Range(sched.visits)
    /\ Len(sched.visits) = MaxIds
    /\ Len(votes) = MaxIds - 1

-----------------------------------------------------------------------------
(* More properties of the simulation *)

\* C22: in every run of every runner a solver's step is called only while
\* its decision is Undecided: the assertion at the head of
\* SnowballSolver::step and ClaroSolver::step never fails.
C22_SolverAssertionHolds == \A i \in 1..Len(nodes) : nodes[i].kind # "aborted"

\* step() was called on an honest node that had decided, and left it as it
\* was
C22_Witness ==
    /\ sched.stepped >= 0
    /\ pc \notin {"panic", "loop"}
    /\ Honest(fed.before)
    /\ fed.before.decision.decided
    /\ At(nodes, sched.stepped) = fed.before

\* C23: in the sync and async runners no write to the shared vector overlaps
\* the parallel steps of the nodes: the master writes before the phase starts
\* and not during it, the steps leave the vector alone, and the votes are
\* applied and the modifiers run only once every step of the phase is over.
C23_NoWriteOverlapsTheSteps ==
    [][Style.kind \in {"sync", "async"} =>
        /\ (pc = "steps" /\ sched.pending # {}) =>
                /\ network_state' = network_state
                /\ master' = master
                /\ pc' \in {"steps", "panic"}
        /\ (network_state' # network_state \/ master' # master) =>
                \/ pc \in {"loop", "chunk"} /\ pc' \in {"steps", "panic"}
                \/ pc = "steps" /\ sched.pending = {}
                \/ pc = "modifiers"]_vars

\* an async chunk in which one node has stepped to a new vote and another is
\* still to step, after the master wrote
C23_Witness ==
    /\ Style.kind = "async"
    /\ pc = "steps"
    /\ master.present
    /\ Cardinality(sched.pending) = 1
    /\ \E i \in 1..Len(nodes) :
        /\ sched.visits[i] = 1
        /\ i - 1 \in Head(sched.chunks)
        /\ NodeVote(nodes[i], master) # network_state[i]

-----------------------------------------------------------------------------
(* More properties of the Snowball solver *)

\* C24: a Snowball step on the sample V from Undecided(o) counts pref, the
\* votes of V of o's polarity (0 for None), and not_pref = |V| - pref; if
\* pref >= quorum the streak grows by one and the opinion is kept, also when
\* both sides reach the quorum; else if not_pref >= quorum the opinion is
\* flipped and the streak is 1; else the streak is 0 and the opinion kept;
\* and the solver is then Decided on its opinion iff streak > threshold.
C24_SnowballStepRule ==
    (pc = "harness" /\ Solver.kind = "snowball" /\ fed.n >= 1) =>
        LET before == fed.before
            o == before.decision.opinion
            pref == IF o = "None" THEN 0 ELSE CountTag(votes, o)
            not_pref == Len(votes) - pref
            opposite == IF o = "Yes" THEN "No" ELSE "Yes"
        IN  /\ IF pref >= Cfg.quorum_size
               THEN /\ Solver.consecutive_success = before.consecutive_success + 1
                    /\ Solver.decision.opinion = o
               ELSE IF not_pref >= Cfg.quorum_size
               THEN /\ Solver.consecutive_success = 1
                    /\ o \in VoteTags => Solver.decision.opinion = opposite
               ELSE /\ Solver.consecutive_success = 0
                    /\ Solver.decision.opinion = o
            /\ Solver.decision.decided <=> Solver.consecutive_success > Cfg.decision_threshold

\* a step whose sample gave the quorum to both sides and kept the opinion
C24_Witness ==
    /\ pc = "harness" /\ Solver.kind = "snowball" /\ fed.n >= 2
    /\ Cfg.quorum_size = 1
    /\ fed.before.decision.opinion \in VoteTags
    /\ \A o \in VoteTags : CountTag(votes, o) >= 1
    /\ Solver.decision.opinion = fed.before.decision.opinion
    /\ Solver.consecutive_success = fed.before.consecutive_success + 1
    /\ Solver.consecutive_success >= 2

\* C25: a Snowball solver whose opinion is None and which steps on a sample
\* in which one polarity reaches the quorum ends the step with that polarity
\* as its opinion and with consecutive_success = 1.
C25_NoneTakesTheQuorumSide ==
    LET QuorumSides == {o \in VoteTags : CountTag(votes, o) >= Cfg.quorum_size} IN
    (/\ pc = "harness" /\ Solver.kind = "snowball" /\ fed.n >= 1
     /\ fed.before.decision.opinion = "None"
     /\ Cfg.quorum_size >= 1
     /\ Cardinality(QuorumSides) = 1) =>
        /\ Solver.decision.opinion \in QuorumSides
        /\ Solver.consecutive_success = 1

-----------------------------------------------------------------------------
(* More properties of the Claro solver *)

\* C26: a Claro step on a non-empty sample computes, from the updated
\* counters, c = confidence / (confidence + look_ahead), e = e1(1-c) + e2 c
\* and alpha_eff = alpha(1-c) + alpha_2 c; if e > alpha_eff the opinion becomes
\* Yes; else if e < 1 - alpha_eff it becomes No; otherwise, with
\* 1 - alpha_eff <= e <= alpha_eff, the opinion stays and query_size becomes
\* min(query_size * query_multiplier, initial_query_size * max_multiplier);
\* query_size changes in no other case.  The opinion that stays is the one
\* held when the rule is applied: an Undecided(None) has taken the first vote.
C26_ClaroRoundRule ==
    (ClaroHarness /\ fed.n >= 1) =>
        LET before == fed.before
            held == IF before.decision.opinion = "None" /\ votes # <<>>
                    THEN VoteToOpinion(votes[1])
                    ELSE before.decision.opinion
            c == RatDiv(Solver.confidence, Solver.confidence + Cfg.look_ahead)
            e1 == RatDiv(CountTag(votes, "Yes"), Len(votes))
            e2 == RatDiv(Solver.evidence, Solver.evidence_accumulated)
            e == RatAdd(RatMul(e1, RatSub(RatOne, c)), RatMul(e2, c))
            alpha_eff == RatAdd(RatMul(Cfg.evidence_alpha, RatSub(RatOne, c)),
                                RatMul(Cfg.evidence_alpha_2, c))
            grown == Min(before.query.query_size * before.query.query_multiplier,
                         before.query.initial_query_size * before.query.max_multiplier)
        IN  IF votes = <<>>
            THEN Solver.query = before.query
            ELSE IF RatGT(e, alpha_eff)
            THEN /\ Solver.decision.opinion = "Yes"
                 /\ Solver.query = before.query
            ELSE IF RatLT(e, RatSub(RatOne, alpha_eff))
            THEN /\ Solver.decision.opinion = "No"
                 /\ Solver.query = before.query
            ELSE /\ RatGE(e, RatSub(RatOne, alpha_eff))
                 /\ RatGE(alpha_eff, e)
                 /\ Solver.decision.opinion = held
                 /\ Solver.query = [before.query EXCEPT !.query_size = grown]

\* an inconclusive round after an earlier one: the query size grows again and
\* is held at its ceiling
C26_Witness ==
    /\ ClaroHarness /\ fed.n >= 2 /\ votes # <<>>
    /\ Solver.decision.opinion = fed.before.decision.opinion
    /\ Solver.query.query_size > fed.before.query.query_size
    /\ Solver.query.query_size = Solver.query.initial_query_size * Solver.query.max_multiplier
    /\ Solver.query.query_size < fed.before.query.query_size * Solver.query.query_multiplier

\* C28: in every reachable Claro state confidence equals
\* evidence_accumulated and evidence is at most evidence_accumulated: both
\* counters receive the increment |votes| on every step.
C28_ClaroCountersAgree ==
    ClaroHarness =>
        /\ Solver.confidence = Solver.evidence_accumulated
        /\ Solver.evidence <= Solver.evidence_accumulated
        /\ fed.n >= 1 =>
            /\ Solver.confidence = fed.before.confidence + Len(votes)
            /\ Solver.evidence_accumulated = fed.before.evidence_accumulated + Len(votes)

\* two steps on mixed samples: some votes seen were positive, some were not
C28_Witness ==
    /\ ClaroHarness /\ fed.n >= 2
    /\ Len(votes) >= 2
    /\ Solver.confidence > Len(votes)
    /\ Solver.evidence > 0
    /\ Solver.evidence < Solver.evidence_accumulated

\* The Claro solver stepped on non-empty samples for as long as it is
\* Undecided, with no bound on the number of steps.
StepClaroFed ==
    /\ pc = "harness"
    /\ nodes[1].kind = "claro"
    /\ ~nodes[1].decision.decided
    /\ \E vs \in VoteSlices \ {<<>>} :
        /\ votes' = vs
        /\ nodes' = <<ClaroStep(settings.consensus_settings, nodes[1], vs)>>
        /\ fed' = [FedAfter(fed, "mixed", nodes[1]) EXCEPT !.n = Min(fed.n + 1, MaxSteps)]
    /\ UNCHANGED <<settings, network_state, master, sim, pc, sched, wards>>

SpecClaroFed == InitClaro /\ [][StepClaroFed]_vars

\* C34: a Claro solver becomes Decided exactly at the first non-empty step
\* after which confidence / (confidence + look_ahead) > confidence_beta,
\* whatever the polarity of the votes seen; hence, with confidence_beta < 1
\* and every sample non-empty, every Claro solver is eventually Decided,
\* after a bounded number of votes: an Undecided solver has seen at most
\* beta * look_ahead / (1 - beta) votes, and every step adds at least one.
C34_ClaroDecidesOnConfidence ==
    /\ [](ClaroHarness =>
            /\ Solver.decision.decided <=>
                /\ Solver.confidence > 0
                /\ Solver.confidence * Cfg.confidence_beta[2]
                    > Cfg.confidence_beta[1] * (Solver.confidence + Cfg.look_ahead)
            /\ ~Solver.decision.decided =>
                Solver.confidence * (Cfg.confidence_beta[2] - Cfg.confidence_beta[1])
                    <= Cfg.confidence_beta[1] * Cfg.look_ahead)
    /\ [][ClaroHarness =>
            /\ Len(votes') >= 1
            /\ Solver.confidence' = Solver.confidence + Len(votes')]_vars

\* a solver that decided on No after several samples, when its confidence
\* passed the threshold
C34_Witness ==
    /\ ClaroHarness
    /\ Solver.decision = Decided("No")
    /\ fed.n >= 3
    /\ fed.before.confidence > 0
    /\ Solver.confidence > fed.before.confidence

-----------------------------------------------------------------------------
(* Sampling harness: one Claro node, built as build_honest_nodes builds it, *)
(* stepping on a shared vector that holds the votes of its peers.           *)

Peers == 4

\* a configuration under which a node goes on after an inconclusive round
SamplingClaro ==
    [kind |-> "claro", evidence_alpha |-> <<3, 4>>, evidence_alpha_2 |-> <<3, 4>>,
     confidence_beta |-> <<9, 10>>, look_ahead |-> 3, query |-> NewQueryConfiguration(1)]

\* the number of peers the next step of node n asks the shared vector for
SampleSize(n) == n.node_query_size

InitSampling ==
    /\ settings = [consensus_settings |-> SamplingClaro]
    /\ \E peers \in [1..Peers -> VoteTags], opinion \in Opinions :
        /\ network_state = <<OpinionToVote(opinion)>> \o peers
        /\ nodes = <<NewNode(0, "claro", opinion, SamplingClaro.query, Peers + 1)>>
        /\ fed = FedNothing(nodes[1])
    /\ master = NoMaster
    /\ sim = [iteration |-> 0, round |-> 0]
    /\ pc = "sampling"
    /\ sched = IdleSched
    /\ wards = <<>>
    /\ votes = <<>>

\* ClaroNode::step
SamplingStep ==
    /\ pc = "sampling"
    /\ fed.n < MaxSteps
    /\ \E vs \in query_network_state(network_state, SampleSize(nodes[1]), nodes[1].id) :
        /\ votes' = IF nodes[1].decision.decided THEN <<>> ELSE vs
        /\ nodes' = <<HonestStep(settings.consensus_settings, nodes[1], vs)>>
        /\ fed' = FedAfter(fed, "mixed", nodes[1])
    /\ UNCHANGED <<settings, network_state, master, sim, pc, sched, wards>>

SpecSampling == InitSampling /\ [][SamplingStep]_vars

\* C27: after a Claro node has had an inconclusive round, the number of peers
\* it samples from the shared vector in its following steps is the grown
\* query_size: the sample size of the node's step is the solver's query_size.
C27_SampleSizeTracksQuerySize ==
    (/\ pc = "sampling" /\ fed.n >= 1
     /\ ~fed.before.decision.decided
     /\ fed.before.query.query_size # fed.before.query.initial_query_size) =>
        Len(votes) = Min(fed.before.query.query_size, Peers)

-----------------------------------------------------------------------------
(* More properties of the simulation: wards and modifiers *)

\* C29 as stated: in each runner iteration the network modifiers are applied
\* to the shared vector before the wards are evaluated for that iteration:
\* the wards are reached from the modifiers.
C29_ModifiersBeforeWards ==
    [][(pc' = "wards" /\ pc # "wards") => pc = "modifiers"]_vars

\* C29 as amended: in each runner iteration the wards are evaluated before the
\* network modifiers are applied to the shared vector for that iteration; the
\* evaluation leaves the vector as the node steps left it, and the modifiers
\* run only when no ward has fired.
C29_WardsBeforeModifiers ==
    [][/\ pc' = "modifiers" => (pc = "wards" /\ ~SomeWardFires)
       /\ pc = "wards" => (/\ network_state' = network_state
                           /\ pc' = IF SomeWardFires THEN "done" ELSE "modifiers")]_vars

\* an iteration has ended under a ward that did not fire, and its modifiers
\* have dropped a vote from the vector
C29_Witness ==
    /\ pc \in {"loop", "advance"}
    /\ sched.steps > 0
    /\ settings.wards # <<>>
    /\ settings.network_modifiers # <<>>
    /\ \E i \in 1..Len(nodes) :
        network_state[i] = "None" /\ NodeVote(nodes[i], master) # "None"
    /\ sched.snapshot = network_state

-----------------------------------------------------------------------------
(* More properties of the simulation: the omniscient master *)

\* The sync runner on populations that hold a master: the shares of the
\* second distribution are 3/8, 1/8, 1/8, 3/8 and round to 1, 0, 0, 1 nodes
\* out of 3 ids.
MasterDistributions == {<<4, 0, 0, 4>>, <<3, 1, 1, 3>>}

MasterSettings ==
    [consensus_settings : {SimSnowball},
     distribution : InitialDistributions,
     byzantine_settings : [total_size : 2..MaxNodes, distribution : MasterDistributions],
     wards : {<<>>},
     network_modifiers : ModifierLists,
     simulation_style : {[kind |-> "sync"]}]

InitMaster == InitWith(MasterSettings)

NextMaster ==
    \/ SyncIteration
    \/ NodeStep
    \/ SyncCollect
    \/ CheckWards
    \/ RunModifiers

SpecMaster == InitMaster /\ [][NextMaster]_vars

\* C30: after each step of the master every puppet slot of the shared vector
\* holds the same vote v and the decision shared with the puppets is
\* Undecided(v), where v is the minority side among the vector entries of the
\* honest nodes only (No if the honest Yes entries strictly outnumber the
\* honest No entries, otherwise Yes); no other slot is changed by the step.
C30_MasterVotesMinority ==
    [][(master.present /\ pc \in {"loop", "chunk"} /\ pc' = "steps") =>
        LET honest == {i \in 1..Len(nodes) : Honest(nodes[i])}
            puppets == {i \in 1..Len(nodes) : nodes[i].kind = "omniscient"}
            v == IF Cardinality({i \in honest : network_state[i] = "Yes"})
                    > Cardinality({i \in honest : network_state[i] = "No"})
                 THEN "No" ELSE "Yes"
        IN  /\ \A i \in puppets : network_state'[i] = v
            /\ master'.decision = Undecided(v)
            /\ \A i \in 1..Len(nodes) :
                i \notin puppets => network_state'[i] = network_state[i]]_vars

-----------------------------------------------------------------------------
(* More properties of the simulation: the nodes that are not honest *)

\* C31: Random, Infantile and OmniscientPuppet nodes are never Decided; the
\* opinion of a Random node after a step is Yes or No; the opinion of an
\* Infantile node after a step is the opposite of the majority of its sample:
\* No iff the Yes votes are a strict majority of the sample, otherwise Yes,
\* also on a tie and on the empty sample.
C31_ByzantineNodesNeverDecide ==
    /\ [](\A i \in 1..Len(nodes) :
            ~Honest(nodes[i]) => ~NodeDecision(nodes[i], master).decided)
    /\ [][\A p \in 0..(Len(nodes) - 1) :
            (sched'.steps = sched.steps + 1 /\ sched'.stepped = p) =>
                LET n == At(nodes, p)
                    after == At(nodes', p)
                IN  /\ n.kind = "random" => after.decision \in {Undecided(o) : o \in VoteTags}
                    /\ n.kind = "infantile" =>
                        \E vs \in query_network_state(network_state, n.node_query_size, n.id) :
                            after.decision =
                                Undecided(IF 2 * CountTag(vs, "Yes") > Len(vs) THEN "No" ELSE "Yes")
                    /\ n.kind = "omniscient" => after = n]_vars

\* an Infantile node that answered Yes to one sample answers No to the next
C31_Witness ==
    /\ sched.stepped >= 0 /\ InRange(nodes, sched.stepped)
    /\ At(nodes, sched.stepped).kind = "infantile"
    /\ fed.before.kind = "infantile"
    /\ fed.before.decision = Undecided("Yes")
    /\ At(nodes, sched.stepped).decision = Undecided("No")

\* C33: no honest node ever reaches Decided(None): whenever a Snowball or
\* Claro solver is Decided, its opinion is Yes or No.
C33_NoHonestDecidesNone ==
    \A i \in 1..Len(nodes) :
        (Honest(nodes[i]) /\ nodes[i].decision.decided) =>
            nodes[i].decision.opinion \in VoteTags

-----------------------------------------------------------------------------
(* Polling harness: query_network_state called once on a vector of present *)
(* and absent votes, for a query size and a caller id.                      *)

InitPoll ==
    \E len \in 0..(MaxNodes + 1), query_size \in 0..MaxNodes, node_id \in 0..MaxNodes :
        \E ns \in [1..len -> Opinions] :
            /\ settings = [query_size |-> query_size, node_id |-> node_id]
            /\ network_state = ns
            /\ nodes = <<>>
            /\ master = NoMaster
            /\ sim = [iteration |-> 0, round |-> 0]
            /\ pc = "poll"
            /\ sched = [IdleSched EXCEPT !.snapshot = ns]
            /\ wards = <<>>
            /\ votes = <<>>
            /\ fed = FedNothing(NoNode)

\* query_network_state(&network_state, query_size, node_id, rng)
Poll ==
    /\ pc = "poll"
    /\ votes' \in query_network_state(network_state, settings.query_size, settings.node_id)
    /\ pc' = "polled"
    /\ UNCHANGED <<settings, nodes, network_state, master, sim, sched, wards, fed>>

SpecPoll == InitPoll /\ [][Poll]_vars

\* C32: query_network_state(K, self) returns at most K votes, each the present
\* vote of a distinct index of the vector other than the caller's id; absent
\* entries and the caller's own entry give no vote, and the vector is left
\* as it was.
C32_QueryPresentVotesOfOthers ==
    pc = "polled" =>
        LET eligible == {i \in 1..Len(network_state) :
                            i - 1 # settings.node_id /\ network_state[i] # "None"}
        IN  /\ Len(votes) <= settings.query_size
            /\ \E from \in [1..Len(votes) -> eligible] :
                /\ \A j, k \in 1..Len(votes) : j # k => from[j] # from[k]
                /\ \A k \in 1..Len(votes) : votes[k] = network_state[from[k]]
            /\ network_state = sched.snapshot

\* the caller's entry, an absent entry and more than K present votes of
\* others were in the vector, and the query returned K votes
C32_Witness ==
    /\ pc = "polled"
    /\ settings.query_size = 1
    /\ Len(votes) = 1
    /\ Cardinality({i \in 1..Len(network_state) :
            i - 1 # settings.node_id /\ network_state[i] # "None"}) >= 2
    /\ InRange(network_state, settings.node_id)
    /\ At(network_state, settings.node_id) # "None"
    /\ \E i \in 1..Len(network_state) : network_state[i] = "None"

-----------------------------------------------------------------------------
(* Unanimous runs: populations of honest nodes that all start on one side, *)
(* under every runner, with and without RandomDrop.                         *)

UnanimousSettings ==
    [consensus_settings :
        {[SimSnowball EXCEPT !.quorum_size = q, !.decision_threshold = 1 - (q % 2)] : q \in 0..2}
        \cup {[SimClaro EXCEPT !.evidence_alpha = a, !.evidence_alpha_2 = b, !.look_ahead = 3] :
                a, b \in {<<0, 1>>, <<1, 1>>}},
     distribution : {<<2, 0, 0>>, <<0, 2, 0>>},
     byzantine_settings : [total_size : {3}, distribution : {<<8, 0, 0, 0>>}],
     wards : {<<>>},
     network_modifiers : ModifierLists,
     simulation_style : SimulationStyles]

SpecUnanimous == InitWith(UnanimousSettings) /\ [][Next]_vars

\* C35: in a run whose population is entirely honest (Snowball, or Claro with
\* 0 <= alpha, alpha_2 <= 1) and in which every node starts with the same
\* opinion p in {Yes, No}, under any runner and any RandomDrop modifiers, no
\* node ever holds the opposite opinion and every decision reached is
\* Decided(p).
C35_UnanimousStaysUnanimous ==
    LET p == IF settings.distribution[1] > 0 THEN "Yes" ELSE "No" IN
    \A i \in 1..Len(nodes) :
        /\ nodes[i].decision.opinion # (IF p = "Yes" THEN "No" ELSE "Yes")
        /\ nodes[i].decision.decided => nodes[i].decision.opinion = p
        /\ network_state[i] \in {p, "None"}

\* after a drop, a Claro node whose rounds were all inconclusive has decided
\* on the No it started with
C35_Witness ==
    /\ settings.consensus_settings.kind = "claro"
    /\ settings.consensus_settings.evidence_alpha = <<1, 1>>
    /\ settings.consensus_settings.evidence_alpha_2 = <<1, 1>>
    /\ settings.network_modifiers # <<>>
    /\ sim.iteration >= 2
    /\ \E i \in 1..Len(nodes) :
        /\ nodes[i].decision = Decided("No")
        /\ nodes[i].query.query_size > nodes[i].query.initial_query_size

-----------------------------------------------------------------------------
(* Layered runs: the layered runner alone, on every population of up to     *)
(* MaxNodes ids, with every gap from 0 to 2, with and without a ward.        *)
(* sched.visits counts the steps of each position.                           *)

LayeredSettings ==
    [consensus_settings : {SimSnowball},
     distribution : InitialDistributions,
     byzantine_settings : [total_size : 1..MaxNodes, distribution : ByzantineDistributions],
     wards : {<<>>, <<[kind |-> "time_to_finality", ttf_threshold |-> 1]>>},
     network_modifiers : {<<>>},
     simulation_style : [kind : {"layered"}, rounds_gap : 0..2]]

InitLayered == InitWith(LayeredSettings)

NextLayered ==
    \/ LayeredStep
    \/ CheckWards
    \/ RunModifiers
    \/ LayeredAdvance

SpecLayered == InitLayered /\ [][NextLayered]_vars

\* C36: at every point of a layered run the deque has exactly gap+1 layers,
\* every node id is in at most one layer, every node that is in a layer is
\* Undecided and every Decided node is in no layer; sliding the window never
\* discards a node id, because the front layer is empty when it is dropped.
C36_LayersHoldTheUndecided ==
    /\ [](/\ Len(sched.deque) = Style.rounds_gap + 1
          /\ \A j, k \in 1..Len(sched.deque) : j # k => sched.deque[j] \cap sched.deque[k] = {}
          /\ \A i \in 1..Len(nodes) :
                NodeDecision(nodes[i], master).decided =>
                    \A k \in 1..Len(sched.deque) : nodes[i].id \notin sched.deque[k])
    /\ [][(pc = "advance" /\ sched'.deque # sched.deque) =>
            /\ sched.deque[1] = {}
            /\ sched'.deque = Tail(sched.deque) \o <<{}>>]_vars

\* C37: in a layered run a node in layer k has been stepped exactly
\* (round counter + k) times, so at every point the numbers of steps taken by
\* any two nodes that are still in a layer differ by at most gap.
C37_LayerCountsTheSteps ==
    LET layer_of == [i \in 1..Len(nodes) |->
                        {k \in 0..(Len(sched.deque) - 1) : nodes[i].id \in At(sched.deque, k)}]
    IN  /\ \A i \in 1..Len(nodes) :
            \A k \in layer_of[i] : sched.visits[i] = sim.round + k
        /\ \A i, j \in 1..Len(nodes) :
            (layer_of[i] # {} /\ layer_of[j] # {}) =>
                sched.visits[i] - sched.visits[j] <= Style.rounds_gap

\* C38: in a layered run with at least one node, gap >= 1 and the default
\* layer distribution, at the start of every iteration at least one of the
\* selectable layers 0..gap-1 is non-empty, so the choice of a layer and of a
\* node never fails: the last layer, index gap, is never the only non-empty
\* one when a selection is made.
C38_SelectableLayerHoldsAnId ==
    (Style.kind = "layered" /\ pc = "loop" /\ Len(nodes) >= 1 /\ Style.rounds_gap >= 1) =>
        \E k \in 0..(Style.rounds_gap - 1) : At(sched.deque, k) # {}

\* an iteration starts after the window slid over a last layer that was the
\* only one holding ids
C38_Witness ==
    /\ Style.kind = "layered"
    /\ pc = "loop"
    /\ Style.rounds_gap >= 1
    /\ sim.round >= 1
    /\ sim.iteration >= 1
    /\ sched.steps >= 1
    /\ At(sched.deque, Style.rounds_gap) = {}
    /\ At(sched.deque, Style.rounds_gap - 1) # {}
    /\ \A k \in 0..(Style.rounds_gap - 2) : At(sched.deque, k) = {}

-----------------------------------------------------------------------------
(* More properties of the Glauber runner *)

\* C39: throughout a Glauber run the round counter of the simulation state
\* stays 0 (only the iteration counter advances), so a TimeToFinality ward
\* and a Stabilised ward with the Rounds check never fire in a Glauber run.
C39_GlauberRoundStaysZero ==
    Style.kind = "glauber" =>
        /\ sim.round = 0
        /\ \A ttf_threshold \in 0..MaxRound : ~time_to_finality(ttf_threshold, SimulationState)
        /\ \A k \in 1..Len(wards) :
            LET w == settings.wards[k] IN
            (\/ w.kind = "time_to_finality"
             \/ w.kind = "stabilised" /\ w.check.type = "rounds") =>
                /\ ~analyze(w, wards[k], SimulationState).fired
                /\ wards[k] = NewWardState

\* the wards of a Glauber run were evaluated a second time on an unchanged
\* count of votes, and the run goes on with a Stabilised ward on rounds
C39_Witness ==
    /\ Style.kind = "glauber"
    /\ pc = "modifiers"
    /\ sim.iteration >= 1
    /\ sched.steps >= 2
    /\ \E k \in 1..Len(wards) :
        /\ settings.wards[k].kind = "stabilised"
        /\ settings.wards[k].check.type = "rounds"
    /\ count_state(network_state) = count_state(sched.snapshot)

\* C40: in the Glauber runner an iteration writes only the stepped node's
\* vector entry, so an entry set to absent by a modifier stays absent until
\* that node is stepped again, and the entry of a Decided node, once dropped,
\* stays absent for the rest of the run; in the sync and async runners the
\* whole vector is rebuilt from the nodes' current votes at every step phase,
\* so a dropped entry of a node with opinion Yes or No is present again after
\* the next step phase.
C40_DropsLastUntilRewritten ==
    /\ [][Style.kind = "glauber" =>
            \A i \in 1..Len(network_state) :
                /\ network_state'[i] # network_state[i] =>
                    \/ /\ pc = "loop"
                       /\ sched'.steps = sched.steps + 1
                       /\ sched'.stepped = i - 1
                    \/ /\ pc = "modifiers"
                       /\ network_state'[i] = "None"
                /\ (NodeDecision(nodes[i], master).decided /\ network_state[i] = "None") =>
                    network_state'[i] = "None"]_vars
    /\ [][(Style.kind \in {"sync", "async"} /\ pc = "steps" /\ pc' \in {"wards", "chunk"}) =>
            /\ Len(network_state') = Len(nodes')
            /\ \A i \in 1..Len(nodes') :
                /\ network_state'[i] = OpinionToVote(NodeDecision(nodes'[i], master').opinion)
                /\ NodeDecision(nodes'[i], master').opinion \in {"Yes", "No"} =>
                    network_state'[i] # "None"]_vars

\* in a Glauber run a Decided node's entry was dropped by the modifier, another
\* node was stepped after that, and the entry is still absent
C40_Witness ==
    /\ Style.kind = "glauber"
    /\ pc = "wards"
    /\ sched.steps >= 2
    /\ \E i \in 1..Len(nodes) :
        /\ nodes[i].decision.decided
        /\ nodes[i].decision.opinion \in {"Yes", "No"}
        /\ network_state[i] = "None"
        /\ sched.stepped # i - 1
        /\ fed.before # nodes[sched.stepped + 1]

====
